---- MODULE Spec2Model ----
(***************************************************************************)
(* Lead-intake serverless functions of quirk-trade-appraisal.              *)
(*                                                                         *)
(* Five handler revisions are modelled:                                    *)
(*   TA1  netlify/functions/trade-appraisal.js, lines 5-134   (ADF e-mail) *)
(*   TA2  netlify/functions/trade-appraisal.js, lines 140-278 (HTML table) *)
(*   TA3  unnamed/part_000                                    (ADF e-mail) *)
(*   SC1  netlify/functions/netlify/functions/submission-created.js        *)
(*   SC2  unnamed/part_001                       (submission-created)      *)
(*                                                                         *)
(* One invocation is a sequence of synchronous segments separated by the   *)
(* handler's awaits (sg.send, fetch).  JavaScript values that arrive in    *)
(* the JSON body are records [t, s]: t is the typeof/kind of the value and *)
(* s its characters (a sequence of one-character strings).                 *)
(***************************************************************************)
EXTENDS Integers, Sequences, FiniteSets, TLC

VARIABLES
  env,          \* process.env of the deployment
  h,            \* the handler revision that was invoked
  event,        \* its argument
  pc,           \* where the invocation stands
  data,         \* the parsed body
  lead,         \* the normalized lead
  mail,         \* the promise of sg.send
  backup,       \* the promise of the webhook fetch
  backupUrl,    \* the URL the webhook fetch was given
  sendCalls,    \* calls of sg.send in this invocation
  backupCalls,  \* calls of the webhook fetch in this invocation
  parseCalls,   \* calls of JSON.parse in this invocation
  sentLead,     \* the lead the e-mail was rendered from
  fileUrls,     \* the file URLs of the submission-created handlers
  attachments,  \* the attachments fetched so far
  total,        \* their size in bytes
  ix,           \* the loop index i of the attachment loop
  fetch,        \* the promise of the attachment fetch
  other,        \* the locals of a second invocation, suspended or not begun
  client,       \* the state of the form page in the browser
  response,     \* the object the handler returned
  outcome       \* how the invocation ended

\* the variables of the functions on the server
serverVars == <<env, h, event, pc, data, lead, mail, backup, backupUrl,
                sendCalls, backupCalls, parseCalls, sentLead, fileUrls, attachments,
                total, ix, fetch, other, response, outcome>>

vars == <<env, h, event, pc, data, lead, mail, backup, backupUrl,
          sendCalls, backupCalls, parseCalls, sentLead, fileUrls, attachments,
          total, ix, fetch, other, response, outcome, client>>

(***************************************************************************)
(* JavaScript values                                                       *)
(***************************************************************************)
Str(cs) == [t |-> "string", s |-> cs]
Num(cs) == [t |-> "number", s |-> cs]
Undef == [t |-> "undefined", s |-> <<>>]
Null == [t |-> "null", s |-> <<>>]
True == [t |-> "boolean", s |-> <<"t", "r", "u", "e">>]

\* ToBoolean: "", 0, null, undefined and false are falsy; arrays are truthy
Truthy(v) ==
  CASE v.t = "string" -> v.s # <<>>
    [] v.t = "number" -> v.s # <<"0">>
    [] v.t = "boolean" -> v.s = <<"t", "r", "u", "e">>
    [] v.t = "array" -> TRUE
    [] v.t = "object" -> TRUE
    [] OTHER -> FALSE

\* a || b
JsOr(a, b) == IF Truthy(a) THEN a ELSE b

IsSpace(c) == c = " "
IsDigit(c) == c \in {"0", "1", "2", "3", "4", "5", "6", "7", "8", "9"}

RECURSIVE TrimStart(_)
TrimStart(cs) ==
  IF cs # <<>> /\ IsSpace(Head(cs)) THEN TrimStart(Tail(cs)) ELSE cs

RECURSIVE TrimEnd(_)
TrimEnd(cs) ==
  IF cs # <<>> /\ IsSpace(cs[Len(cs)])
  THEN TrimEnd(SubSeq(cs, 1, Len(cs) - 1))
  ELSE cs

\* String.prototype.trim
Trim(cs) == TrimEnd(TrimStart(cs))

\* s.replace(/\D/, "") : without the g flag only the first match goes
RECURSIVE StripNonDigits_FirstOnly(_)
StripNonDigits_FirstOnly(cs) ==
  IF cs = <<>> THEN <<>>
  ELSE IF IsDigit(Head(cs)) THEN <<Head(cs)>> \o StripNonDigits_FirstOnly(Tail(cs))
  ELSE Tail(cs)

\* s.replace(/\D/g, "")
RECURSIVE StripNonDigits(_)
StripNonDigits(cs) ==
  IF cs = <<>> THEN <<>>
  ELSE IF IsDigit(Head(cs)) THEN <<Head(cs)>> \o StripNonDigits(Tail(cs))
  ELSE StripNonDigits(Tail(cs))

\* s.slice(0, n)
Slice0(cs, n) == SubSeq(cs, 1, IF Len(cs) < n THEN Len(cs) ELSE n)

Lower == <<"a", "b", "c", "d", "e", "f", "g", "h", "i", "j", "k", "l", "m",
           "n", "o", "p", "q", "r", "s", "t", "u", "v", "w", "x", "y", "z">>
Upper == <<"A", "B", "C", "D", "E", "F", "G", "H", "I", "J", "K", "L", "M",
           "N", "O", "P", "Q", "R", "S", "T", "U", "V", "W", "X", "Y", "Z">>

UpperChar(c) ==
  IF \E i \in 1..Len(Lower) : Lower[i] = c
  THEN Upper[CHOOSE i \in 1..Len(Lower) : Lower[i] = c]
  ELSE c

\* String.prototype.toUpperCase
ToUpperCase(cs) == [i \in 1..Len(cs) |-> UpperChar(cs[i])]

\* const safe = (v) => (typeof v === "string" ? v.trim() : "")
safe(v) == IF v.t = "string" THEN Trim(v.s) ELSE <<>>

\* const digits = (v) => safe(v).replace(/\D/g, "")
digits(v) == StripNonDigits(safe(v))

PhoneMax == 15

(***************************************************************************)
(* Requests                                                                *)
(***************************************************************************)
TA == {"TA1", "TA2", "TA3"}
SC == {"SC1", "SC2"}
Handlers == TA \cup SC

\* handlers whose source contains the Sheets backup block
WithBackup == TA \cup {"SC1"}

Methods == {"OPTIONS", "POST", "GET"}

Fields == {"company", "name", "email", "phoneRaw", "phone", "vin",
           "year", "make", "model", "trim", "mileage", "extColor", "intColor",
           "referrer", "landingPage", "botField", "honeypot", "<i>", "Zip",
           "photoExterior"}

NoFields == [k \in Fields |-> Undef]

CompanyVals == {Undef, Str(<<" ">>), Str(<<"x">>), Num(<<"5">>)}
NameVals == {Str(<<" ">>), Str(<<"a", " ">>)}
EmailVals == {Num(<<"5">>), Str(<<"a">>)}
PhoneRawVals == {Undef, Str(<<"(", "1">>)}
PhoneVals == {Str(<<"-">>), Str(<<"2">>)}
VinVals == {Undef, Num(<<"5">>), Str(<<" ", "a", "1">>)}
BotVals == {Undef, Str(<<"x">>)}
HoneypotVals == {Undef, True}

\* the field objects a request to handler hd is drawn from; for the
\* submission-created handlers this is body.payload.data
Objects(hd) ==
  IF hd = "SC1"
  THEN {[NoFields EXCEPT !.botField = b, !.honeypot = p, !.name = n, !.vin = v] :
          b \in BotVals, p \in HoneypotVals, n \in NameVals, v \in VinVals}
  ELSE {[NoFields EXCEPT !.company = c, !.name = n, !.email = e,
                         !.phoneRaw = r, !.phone = p, !.vin = v] :
          c \in CompanyVals, n \in NameVals, e \in EmailVals,
          r \in PhoneRawVals, p \in PhoneVals, v \in VinVals}

JsonTypes == {"null", "number", "string", "boolean", "array", "object"}

\* event.body: no body, text that is not JSON, or JSON text of a value of
\* type t (with members f when it is an object)
Bodies(hd) ==
  {[kind |-> "empty", t |-> "undefined", f |-> NoFields],
   [kind |-> "invalid", t |-> "undefined", f |-> NoFields]}
  \cup {[kind |-> "json", t |-> ty, f |-> NoFields] : ty \in JsonTypes \ {"object"}}
  \cup {[kind |-> "json", t |-> "object", f |-> o] : o \in Objects(hd)}

\* payload.files of a submission-created event: the url of each file
Uploads(hd, b) ==
  IF hd \in SC /\ b.kind = "json" /\ b.t = "object"
  THEN {<<>>, <<Str(<<"h", "t", "t", "p", ":", "/", "/", "a">>)>>}
  ELSE {<<>>}

Events(hd) ==
  UNION {{[httpMethod |-> m, body |-> b, files |-> fs] :
            m \in Methods, fs \in Uploads(hd, b)} : b \in Bodies(hd)}

NoEvent == [httpMethod |-> "", body |-> [kind |-> "empty", t |-> "undefined", f |-> NoFields],
            files |-> <<>>]

\* process.env: the webhook URL and the shared secret may be unset
Envs == {[SHEETS_WEBHOOK_URL |-> u, SHEETS_SHARED_SECRET |-> x] :
           u \in {Undef, Str(<<"u">>)}, x \in {Undef, Str(<<"k", "&">>)}}

(***************************************************************************)
(* Responses                                                               *)
(***************************************************************************)
CorsHeaders == {<<"Access-Control-Allow-Origin", "*">>,
                <<"Access-Control-Allow-Headers", "content-type">>}

\* const headers = {...} of the trade-appraisal handlers; the
\* submission-created handlers return objects without a headers member
Headers(hd) == IF hd \in TA THEN CorsHeaders ELSE {}

Resp(hd, code, b) == [statusCode |-> code, headers |-> Headers(hd), body |-> b]

NoResponse == [statusCode |-> 0, headers |-> {}, body |-> ""]

OkTrue == "{\"ok\":true}"
OkSilent == "{\"ok\":true,\"silent\":true}"

PreflightResponse(hd) == Resp(hd, 200, "ok")
MethodNotAllowedResponse_NoHeaders(hd) ==
  [statusCode |-> 405, headers |-> {}, body |-> "Method Not Allowed"]
MethodNotAllowedResponse(hd) == Resp(hd, 405, "Method Not Allowed")
InvalidJsonResponse(hd) ==
  Resp(hd, 400, IF hd \in TA THEN "Invalid JSON" ELSE "Invalid webhook payload")
HoneypotResponse(hd) ==
  Resp(hd, 200, IF hd \in TA THEN OkSilent ELSE IF hd = "SC1" THEN "ok" ELSE "ok (bot)")
MissingResponse(hd) == Resp(hd, 400, "Missing required fields")
SendFailedResponse(hd) == Resp(hd, 502, "Failed to send lead")
SuccessResponse(hd) == Resp(hd, 200, IF hd \in TA THEN OkTrue ELSE "ok")

(***************************************************************************)
(* Parsing and normalization                                               *)
(***************************************************************************)
NoData == [t |-> "undefined", f |-> NoFields]

JsonParse_Lenient(b) ==
  CASE b.kind = "json" -> [ok |-> TRUE, t |-> b.t, f |-> b.f]
    [] OTHER -> [ok |-> TRUE, t |-> "object", f |-> NoFields]

\* JSON.parse(event.body || "{}") : ok = FALSE is the SyntaxError
JsonParse(b) ==
  CASE b.kind = "empty" -> [ok |-> TRUE, t |-> "object", f |-> NoFields]
    [] b.kind = "invalid" -> [ok |-> FALSE, t |-> "undefined", f |-> NoFields]
    [] OTHER -> [ok |-> TRUE, t |-> b.t, f |-> b.f]

\* d.k : undefined on a primitive or an array, TypeError on null
Get(d, k) == IF d.t = "object" THEN d.f[k] ELSE Undef
PropertyAccessThrows(d) == d.t \in {"null", "undefined"}

\* (data.company || "").trim() : TypeError when the operand is not a string
CompanyOperand(d) == JsOr(Get(d, "company"), Str(<<>>))
HoneypotThrows(hd, d) ==
  IF hd = "SC1" THEN PropertyAccessThrows(d)
  ELSE PropertyAccessThrows(d) \/ CompanyOperand(d).t # "string"
HoneypotHit(hd, d) ==
  IF hd = "SC1" THEN Truthy(JsOr(Get(d, "botField"), Get(d, "honeypot")))
  ELSE Trim(CompanyOperand(d).s) # <<>>

NoLead == [name |-> <<>>, email |-> <<>>, phone |-> <<>>, vin |-> <<>>,
           year |-> <<>>, make |-> <<>>, model |-> <<>>, trim |-> <<>>,
           mileage |-> <<>>, extColor |-> <<>>, intColor |-> <<>>,
           submittedAt |-> <<>>, referrer |-> <<>>, landingPage |-> <<>>]

\* new Date().toISOString() : some non-empty timestamp
Now == <<"2", "0", "2", "5", "Z">>

\* vin: safe(data.vin).toUpperCase() in TA1 and TA3,
\*      safe((data.vin || "").toUpperCase()) in TA2
VinOperand(d) == JsOr(Get(d, "vin"), Str(<<>>))
NormalizeThrows(hd, d) == hd = "TA2" /\ VinOperand(d).t # "string"
NormVin_CaseKept(hd, d) == safe(VinOperand(d))
NormVin(hd, d) ==
  IF hd = "TA2" THEN safe(Str(ToUpperCase(VinOperand(d).s)))
  ELSE ToUpperCase(safe(Get(d, "vin")))

NormPhone_PhoneFirst(d) ==
  Slice0(digits(JsOr(Get(d, "phone"), Get(d, "phoneRaw"))), PhoneMax)
NormPhone_TenDigits(d) ==
  Slice0(digits(JsOr(Get(d, "phoneRaw"), Get(d, "phone"))), 10)
NormPhone_NoCap(d) == digits(JsOr(Get(d, "phoneRaw"), Get(d, "phone")))
\* phone: digits(data.phoneRaw || data.phone).slice(0, 15)
NormPhone(d) == Slice0(digits(JsOr(Get(d, "phoneRaw"), Get(d, "phone"))), PhoneMax)

BuildLead(hd, d) ==
  [name |-> safe(Get(d, "name")),
   email |-> safe(Get(d, "email")),
   phone |-> NormPhone(d),
   vin |-> NormVin(hd, d),
   year |-> safe(Get(d, "year")),
   make |-> safe(Get(d, "make")),
   model |-> safe(Get(d, "model")),
   trim |-> safe(Get(d, "trim")),
   mileage |-> safe(Get(d, "mileage")),
   extColor |-> safe(Get(d, "extColor")),
   intColor |-> safe(Get(d, "intColor")),
   submittedAt |-> Now,
   referrer |-> safe(Get(d, "referrer")),
   landingPage |-> safe(Get(d, "landingPage"))]

\* !lead.name || !lead.email || !lead.phone || !lead.vin
MissingRequired(l) ==
  l.name = <<>> \/ l.email = <<>> \/ l.phone = <<>> \/ l.vin = <<>>

\* encodeURIComponent: unreserved characters stay, the others are escaped
EncodeChar(c) ==
  CASE c = "&" -> <<"%", "2", "6">>
    [] c = " " -> <<"%", "2", "0">>
    [] c = "(" -> <<"(">>
    [] OTHER -> <<c>>

RECURSIVE EncodeURIComponent(_)
EncodeURIComponent(cs) ==
  IF cs = <<>> THEN <<>>
  ELSE EncodeChar(Head(cs)) \o EncodeURIComponent(Tail(cs))

\* const u = SECRET ? `${URL}?secret=${encodeURIComponent(SECRET)}` : URL
BackupUrl(e) ==
  IF Truthy(e.SHEETS_SHARED_SECRET)
  THEN e.SHEETS_WEBHOOK_URL.s \o <<"?", "s", "e", "c", "r", "e", "t", "=">>
         \o EncodeURIComponent(e.SHEETS_SHARED_SECRET.s)
  ELSE e.SHEETS_WEBHOOK_URL.s

BackupConfigured_Always(hd, e) == hd \in WithBackup
\* if (process.env.SHEETS_WEBHOOK_URL)
BackupConfigured(hd, e) == hd \in WithBackup /\ Truthy(e.SHEETS_WEBHOOK_URL)

(***************************************************************************)
(* Rendering                                                               *)
(*                                                                         *)
(* Texts are sequences of characters; the characters U+2014 (em dash) and  *)
(* U+2013 (en dash) of the templates are written "U+2014" and "U+2013".    *)
(***************************************************************************)
\* String(v)
String(v) ==
  CASE v.t \in {"string", "number", "boolean", "array"} -> v.s
    [] v.t = "object" -> <<"[", "o", "b", "j", "e", "c", "t", " ",
                           "O", "b", "j", "e", "c", "t", "]">>
    [] v.t = "null" -> <<"n", "u", "l", "l">>
    [] OTHER -> <<"u", "n", "d", "e", "f", "i", "n", "e", "d">>

\* array.join("") of an array of strings
RECURSIVE Concat(_)
Concat(ss) == IF ss = <<>> THEN <<>> ELSE Head(ss) \o Concat(Tail(ss))

\* array.join(sep) of an array of strings
RECURSIVE Join(_, _)
Join(ss, sep) ==
  IF ss = <<>> THEN <<>>
  ELSE IF Len(ss) = 1 THEN ss[1]
  ELSE ss[1] \o sep \o Join(Tail(ss), sep)

\* s.replace(/[&<>]/g, c => ({"&":"&amp;","<":"&lt;",">":"&gt;"}[c]))
EscapeChar(c) ==
  CASE c = "&" -> <<"&", "a", "m", "p", ";">>
    [] c = "<" -> <<"&", "l", "t", ";">>
    [] c = ">" -> <<"&", "g", "t", ";">>
    [] OTHER -> <<c>>

RECURSIVE htmlEscape(_)
htmlEscape(cs) ==
  IF Len(cs) = 0 THEN <<>>
  ELSE IF Len(cs) = 1 THEN EscapeChar(cs[1])
  ELSE htmlEscape(SubSeq(cs, 1, Len(cs) \div 2))
         \o htmlEscape(SubSeq(cs, (Len(cs) \div 2) + 1, Len(cs)))

\* s.replace(/c/g, r) for one character c
RECURSIVE ReplaceAll(_, _, _)
ReplaceAll(cs, c, r) ==
  IF Len(cs) = 0 THEN <<>>
  ELSE IF Len(cs) = 1 THEN (IF cs[1] = c THEN r ELSE cs)
  ELSE ReplaceAll(SubSeq(cs, 1, Len(cs) \div 2), c, r)
         \o ReplaceAll(SubSeq(cs, (Len(cs) \div 2) + 1, Len(cs)), c, r)

\* String(s).replace(/&/g,"&amp;").replace(/</g,"&lt;").replace(/>/g,"&gt;")
esc(cs) ==
  ReplaceAll(ReplaceAll(ReplaceAll(cs, "&", <<"&", "a", "m", "p", ";">>),
                        "<", <<"&", "l", "t", ";">>),
             ">", <<"&", "g", "t", ";">>)

\* s.replace(/\s+/g, " ")
RECURSIVE CollapseSpaces(_)
CollapseSpaces(cs) ==
  IF cs = <<>> THEN <<>>
  ELSE IF IsSpace(Head(cs))
       THEN <<" ">> \o CollapseSpaces(TrimStart(Tail(cs)))
       ELSE <<Head(cs)>> \o CollapseSpaces(Tail(cs))

NonEmpty(cs) == cs # <<>>
VehicleTokens_NoSeparator(l) == Concat(SelectSeq(<<l.year, l.make, l.model>>, NonEmpty))
\* [lead.year, lead.make, lead.model].filter(Boolean).join(" ")
VehicleTokens(l) == Join(SelectSeq(<<l.year, l.make, l.model>>, NonEmpty), <<" ">>)

\* [data.year, data.make, data.model].filter(Boolean).join(" ")
DataTokens(d) ==
  LET kept == SelectSeq(<<Get(d, "year"), Get(d, "make"), Get(d, "model")>>, Truthy)
  IN Join([i \in 1..Len(kept) |-> String(kept[i])], <<" ">>)

\* the characters of each key
KeyChars ==
  "company" :> <<"c", "o", "m", "p", "a", "n", "y">> @@
  "name" :> <<"n", "a", "m", "e">> @@
  "email" :> <<"e", "m", "a", "i", "l">> @@
  "phoneRaw" :> <<"p", "h", "o", "n", "e", "R", "a", "w">> @@
  "phone" :> <<"p", "h", "o", "n", "e">> @@
  "vin" :> <<"v", "i", "n">> @@
  "year" :> <<"y", "e", "a", "r">> @@
  "make" :> <<"m", "a", "k", "e">> @@
  "model" :> <<"m", "o", "d", "e", "l">> @@
  "trim" :> <<"t", "r", "i", "m">> @@
  "mileage" :> <<"m", "i", "l", "e", "a", "g", "e">> @@
  "extColor" :> <<"e", "x", "t", "C", "o", "l", "o", "r">> @@
  "intColor" :> <<"i", "n", "t", "C", "o", "l", "o", "r">> @@
  "referrer" :> <<"r", "e", "f", "e", "r", "r", "e", "r">> @@
  "landingPage" :> <<"l", "a", "n", "d", "i", "n", "g", "P", "a", "g", "e">> @@
  "botField" :> <<"b", "o", "t", "F", "i", "e", "l", "d">> @@
  "honeypot" :> <<"h", "o", "n", "e", "y", "p", "o", "t">> @@
  "<i>" :> <<"<", "i", ">">> @@
  "Zip" :> <<"Z", "i", "p">> @@
  "photoExterior" :> <<"p", "h", "o", "t", "o", "E", "x", "t", "e", "r", "i", "o", "r">> @@
  "submittedAt" :> <<"s", "u", "b", "m", "i", "t", "t", "e", "d", "A", "t">>

\* the order of the UTF-16 code units that occur in keys
CodeOrder == <<"<", ">">> \o Upper \o Lower
CharCode(c) == CHOOSE i \in 1..Len(CodeOrder) : CodeOrder[i] = c

\* a < b as Array.prototype.sort compares strings
RECURSIVE KeyLess(_, _)
KeyLess(a, b) ==
  IF b = <<>> THEN FALSE
  ELSE IF a = <<>> THEN TRUE
  ELSE IF Head(a) # Head(b) THEN CharCode(Head(a)) < CharCode(Head(b))
  ELSE KeyLess(Tail(a), Tail(b))

\* keys.sort()
RECURSIVE SortKeys(_)
SortKeys(S) ==
  IF S = {} THEN <<>>
  ELSE LET least == CHOOSE k \in S :
                      \A j \in S \ {k} : KeyLess(KeyChars[k], KeyChars[j])
       IN <<least>> \o SortKeys(S \ {least})

preferredOrder ==
  <<"name", "email", "phone", "vin", "year", "make", "model", "trim", "mileage",
    "extColor", "intColor", "title", "keys", "owners", "accident", "accidentRepair",
    "warnings", "mech", "cosmetic", "interior", "mods", "smells", "service",
    "tires", "brakes", "wear", "utmSource", "utmMedium", "utmCampaign", "utmTerm",
    "utmContent", "referrer", "landingPage", "submittedAt">>

\* v !== undefined && v !== null && String(v).trim() !== ""
hasVal(v) == v.t \notin {"undefined", "null"} /\ Trim(String(v)) # <<>>

\* Array.isArray(v) ? v.join(", ") : String(v)
RowValue(v) == IF v.t = "array" THEN v.s ELSE String(v)

\* Object.keys(data)
DataKeys(d) == {k \in Fields : Get(d, k) # Undef}

\* const merged = { ...data, ...lead }
MergedKeys(d, l) == DataKeys(d) \cup DOMAIN l
merged(d, l) ==
  [k \in MergedKeys(d, l) |-> IF k \in DOMAIN l THEN Str(l[k]) ELSE Get(d, k)]

\* the keys of the rows of an object o with keys K: the preferred keys that
\* have a value in the order of the list, then the other keys (without the
\* excluded ones) in sorted order that have a value
RowKeys_KeepEmpty(o, K, preferred, excluded) ==
  LET Has(k) == k \in K
      first == SelectSeq(preferred, Has)
      included == {first[i] : i \in 1..Len(first)} \cup excluded
  IN first \o SelectSeq(SortKeys(K \ included), Has)
RowKeys(o, K, preferred, excluded) ==
  LET Has(k) == k \in K /\ hasVal(o[k])
      first == SelectSeq(preferred, Has)
      included == {first[i] : i \in 1..Len(first)} \cup excluded
  IN first \o SelectSeq(SortKeys(K \ included), Has)

\* trade-appraisal.js, the table revision: rows.push([k, String(merged[k])])
rows(d, l) ==
  LET ks == RowKeys(merged(d, l), MergedKeys(d, l), preferredOrder, {})
  IN [i \in 1..Len(ks) |-> <<ks[i], String(merged(d, l)[ks[i]])>>]

\* Object.keys(data) with the values
DataObject(d) == [k \in DataKeys(d) |-> Get(d, k)]

\* submission-created.js: the sorted keys of data without form-name,
\* botField and honeypot
rows_SC1(d) ==
  LET ks == RowKeys(DataObject(d), DataKeys(d), <<>>,
                    {"form-name", "botField", "honeypot"})
  IN [i \in 1..Len(ks) |-> <<ks[i], RowValue(Get(d, ks[i]))>>]

\* the later submission-created revision: preferred keys, then the rest
rows_part_001(d) ==
  LET ks == RowKeys(DataObject(d), DataKeys(d), preferredOrder, {})
  IN [i \in 1..Len(ks) |-> <<ks[i], RowValue(Get(d, ks[i]))>>]

\* rows.map(([k,v]) => `${k}: ${v}`).join("\n")
textLines(rs) ==
  Join([i \in 1..Len(rs) |-> KeyChars[rs[i][1]] \o <<":", " ">> \o rs[i][2]], <<"\n">>)

\* const adfXml = `...` : the ADF document, values embedded as they are

adfXml(l) ==
     <<"<", "?", "x", "m", "l", " ", "v", "e", "r", "s", "i", "o", "n", "=",
       "\"", "1", ".", "0", "\"", "?", ">", "\n", "<", "a", "d", "f", ">",
       "\n", " ", " ", "<", "p", "r", "o", "s", "p", "e", "c", "t", " ",
       "s", "t", "a", "t", "u", "s", "=", "\"", "n", "e", "w", "\"", ">",
       "\n", " ", " ", " ", " ", "<", "r", "e", "q", "u", "e", "s", "t",
       "d", "a", "t", "e", ">">>
  \o l.submittedAt
  \o <<"<", "/", "r", "e", "q", "u", "e", "s", "t", "d", "a", "t", "e", ">",
       "\n", " ", " ", " ", " ", "<", "v", "e", "h", "i", "c", "l", "e",
       " ", "i", "n", "t", "e", "r", "e", "s", "t", "=", "\"", "t", "r",
       "a", "d", "e", "-", "i", "n", "\"", ">", "\n", " ", " ", " ", " ",
       " ", " ">>
  \o (IF l.year # <<>> THEN <<"<", "y", "e", "a", "r",
       ">">> \o l.year \o <<"<", "/", "y", "e", "a", "r", ">">> ELSE <<>>)
  \o <<"\n", " ", " ", " ", " ", " ", " ">>
  \o (IF l.make # <<>> THEN <<"<", "m", "a", "k", "e",
       ">">> \o l.make \o <<"<", "/", "m", "a", "k", "e", ">">> ELSE <<>>)
  \o <<"\n", " ", " ", " ", " ", " ", " ">>
  \o (IF l.model # <<>> THEN <<"<", "m", "o", "d", "e", "l",
       ">">> \o l.model \o <<"<", "/", "m", "o", "d", "e", "l",
       ">">> ELSE <<>>)
  \o <<"\n", " ", " ", " ", " ", " ", " ">>
  \o (IF l.trim # <<>> THEN <<"<", "t", "r", "i", "m",
       ">">> \o l.trim \o <<"<", "/", "t", "r", "i", "m", ">">> ELSE <<>>)
  \o <<"\n", " ", " ", " ", " ", " ", " ", "<", "v", "i", "n", ">">>
  \o l.vin
  \o <<"<", "/", "v", "i", "n", ">", "\n", " ", " ", " ", " ", "<", "/",
       "v", "e", "h", "i", "c", "l", "e", ">", "\n", " ", " ", " ", " ",
       "<", "c", "u", "s", "t", "o", "m", "e", "r", ">", "\n", " ", " ",
       " ", " ", " ", " ", "<", "c", "o", "n", "t", "a", "c", "t", ">",
       "\n", " ", " ", " ", " ", " ", " ", " ", " ", "<", "n", "a", "m",
       "e", " ", "p", "a", "r", "t", "=", "\"", "f", "u", "l", "l", "\"",
       ">">>
  \o l.name
  \o <<"<", "/", "n", "a", "m", "e", ">", "\n", " ", " ", " ", " ", " ",
       " ", " ", " ", "<", "p", "h", "o", "n", "e", ">", "+", "1">>
  \o l.phone
  \o <<"<", "/", "p", "h", "o", "n", "e", ">", "\n", " ", " ", " ", " ",
       " ", " ", " ", " ", "<", "e", "m", "a", "i", "l", ">">>
  \o l.email
  \o <<"<", "/", "e", "m", "a", "i", "l", ">", "\n", " ", " ", " ", " ",
       " ", " ", "<", "/", "c", "o", "n", "t", "a", "c", "t", ">", "\n",
       " ", " ", " ", " ", "<", "/", "c", "u", "s", "t", "o", "m", "e", "r",
       ">", "\n", " ", " ", " ", " ", "<", "v", "e", "n", "d", "o", "r",
       ">", "\n", " ", " ", " ", " ", " ", " ", "<", "c", "o", "n", "t",
       "a", "c", "t", ">", "<", "n", "a", "m", "e", " ", "p", "a", "r", "t",
       "=", "\"", "f", "u", "l", "l", "\"", ">", "Q", "u", "i", "r", "k",
       " ", "A", "u", "t", "o", "<", "/", "n", "a", "m", "e", ">", "<", "/",
       "c", "o", "n", "t", "a", "c", "t", ">", "\n", " ", " ", " ", " ",
       "<", "/", "v", "e", "n", "d", "o", "r", ">", "\n", " ", " ", " ",
       " ", "<", "p", "r", "o", "v", "i", "d", "e", "r", ">", "\n", " ",
       " ", " ", " ", " ", " ", "<", "n", "a", "m", "e", " ", "p", "a", "r",
       "t", "=", "\"", "f", "u", "l", "l", "\"", ">", "Q", "u", "i", "r",
       "k", " ", "T", "r", "a", "d", "e", " ", "A", "p", "p", "r", "a", "i",
       "s", "a", "l", "<", "/", "n", "a", "m", "e", ">", "\n", " ", " ",
       " ", " ", " ", " ", "<", "u", "r", "l", ">", "h", "t", "t", "p", "s",
       ":", "/", "/", "w", "w", "w", ".", "q", "u", "i", "r", "k", "c", "a",
       "r", "s", ".", "c", "o", "m", "/", "<", "/", "u", "r", "l", ">",
       "\n", " ", " ", " ", " ", " ", " ", "<", "e", "m", "a", "i", "l",
       ">", "n", "o", "-", "r", "e", "p", "l", "y", "@", "q", "u", "i", "r",
       "k", "c", "a", "r", "s", ".", "c", "o", "m", "<", "/", "e", "m", "a",
       "i", "l", ">", "\n", " ", " ", " ", " ", "<", "/", "p", "r", "o",
       "v", "i", "d", "e", "r", ">", "\n", " ", " ", " ", " ", "<", "c",
       "o", "m", "m", "e", "n", "t", "s", ">">>
  \o (IF l.referrer # <<>> THEN <<"R", "e", "f", "e", "r", "r", "e", "r",
       ":", " ">> \o l.referrer \o <<" ">> ELSE <<>>)
  \o (IF l.landingPage # <<>> THEN <<"L", "a", "n", "d", "i", "n", "g", " ",
       "P", "a", "g", "e", ":", " ">> \o l.landingPage ELSE <<>>)
  \o <<"<", "/", "c", "o", "m", "m", "e", "n", "t", "s", ">", "\n", " ",
       " ", "<", "/", "p", "r", "o", "s", "p", "e", "c", "t", ">", "\n",
       "<", "/", "a", "d", "f", ">">>

\* the same template in the later revision (the vendor element on one line)

adfXml_part_000(l) ==
     <<"<", "?", "x", "m", "l", " ", "v", "e", "r", "s", "i", "o", "n", "=",
       "\"", "1", ".", "0", "\"", "?", ">", "\n", "<", "a", "d", "f", ">",
       "\n", " ", " ", "<", "p", "r", "o", "s", "p", "e", "c", "t", " ",
       "s", "t", "a", "t", "u", "s", "=", "\"", "n", "e", "w", "\"", ">",
       "\n", " ", " ", " ", " ", "<", "r", "e", "q", "u", "e", "s", "t",
       "d", "a", "t", "e", ">">>
  \o l.submittedAt
  \o <<"<", "/", "r", "e", "q", "u", "e", "s", "t", "d", "a", "t", "e", ">",
       "\n", " ", " ", " ", " ", "<", "v", "e", "h", "i", "c", "l", "e",
       " ", "i", "n", "t", "e", "r", "e", "s", "t", "=", "\"", "t", "r",
       "a", "d", "e", "-", "i", "n", "\"", ">", "\n", " ", " ", " ", " ",
       " ", " ">>
  \o (IF l.year # <<>> THEN <<"<", "y", "e", "a", "r",
       ">">> \o l.year \o <<"<", "/", "y", "e", "a", "r", ">">> ELSE <<>>)
  \o <<"\n", " ", " ", " ", " ", " ", " ">>
  \o (IF l.make # <<>> THEN <<"<", "m", "a", "k", "e",
       ">">> \o l.make \o <<"<", "/", "m", "a", "k", "e", ">">> ELSE <<>>)
  \o <<"\n", " ", " ", " ", " ", " ", " ">>
  \o (IF l.model # <<>> THEN <<"<", "m", "o", "d", "e", "l",
       ">">> \o l.model \o <<"<", "/", "m", "o", "d", "e", "l",
       ">">> ELSE <<>>)
  \o <<"\n", " ", " ", " ", " ", " ", " ">>
  \o (IF l.trim # <<>> THEN <<"<", "t", "r", "i", "m",
       ">">> \o l.trim \o <<"<", "/", "t", "r", "i", "m", ">">> ELSE <<>>)
  \o <<"\n", " ", " ", " ", " ", " ", " ", "<", "v", "i", "n", ">">>
  \o l.vin
  \o <<"<", "/", "v", "i", "n", ">", "\n", " ", " ", " ", " ", "<", "/",
       "v", "e", "h", "i", "c", "l", "e", ">", "\n", " ", " ", " ", " ",
       "<", "c", "u", "s", "t", "o", "m", "e", "r", ">", "\n", " ", " ",
       " ", " ", " ", " ", "<", "c", "o", "n", "t", "a", "c", "t", ">",
       "\n", " ", " ", " ", " ", " ", " ", " ", " ", "<", "n", "a", "m",
       "e", " ", "p", "a", "r", "t", "=", "\"", "f", "u", "l", "l", "\"",
       ">">>
  \o l.name
  \o <<"<", "/", "n", "a", "m", "e", ">", "\n", " ", " ", " ", " ", " ",
       " ", " ", " ", "<", "p", "h", "o", "n", "e", ">", "+", "1">>
  \o l.phone
  \o <<"<", "/", "p", "h", "o", "n", "e", ">", "\n", " ", " ", " ", " ",
       " ", " ", " ", " ", "<", "e", "m", "a", "i", "l", ">">>
  \o l.email
  \o <<"<", "/", "e", "m", "a", "i", "l", ">", "\n", " ", " ", " ", " ",
       " ", " ", "<", "/", "c", "o", "n", "t", "a", "c", "t", ">", "\n",
       " ", " ", " ", " ", "<", "/", "c", "u", "s", "t", "o", "m", "e", "r",
       ">", "\n", " ", " ", " ", " ", "<", "v", "e", "n", "d", "o", "r",
       ">", "<", "c", "o", "n", "t", "a", "c", "t", ">", "<", "n", "a", "m",
       "e", " ", "p", "a", "r", "t", "=", "\"", "f", "u", "l", "l", "\"",
       ">", "Q", "u", "i", "r", "k", " ", "A", "u", "t", "o", "<", "/", "n",
       "a", "m", "e", ">", "<", "/", "c", "o", "n", "t", "a", "c", "t", ">",
       "<", "/", "v", "e", "n", "d", "o", "r", ">", "\n", " ", " ", " ",
       " ", "<", "p", "r", "o", "v", "i", "d", "e", "r", ">", "\n", " ",
       " ", " ", " ", " ", " ", "<", "n", "a", "m", "e", " ", "p", "a", "r",
       "t", "=", "\"", "f", "u", "l", "l", "\"", ">", "Q", "u", "i", "r",
       "k", " ", "T", "r", "a", "d", "e", " ", "A", "p", "p", "r", "a", "i",
       "s", "a", "l", "<", "/", "n", "a", "m", "e", ">", "\n", " ", " ",
       " ", " ", " ", " ", "<", "u", "r", "l", ">", "h", "t", "t", "p", "s",
       ":", "/", "/", "w", "w", "w", ".", "q", "u", "i", "r", "k", "c", "a",
       "r", "s", ".", "c", "o", "m", "/", "<", "/", "u", "r", "l", ">",
       "\n", " ", " ", " ", " ", " ", " ", "<", "e", "m", "a", "i", "l",
       ">", "n", "o", "-", "r", "e", "p", "l", "y", "@", "q", "u", "i", "r",
       "k", "c", "a", "r", "s", ".", "c", "o", "m", "<", "/", "e", "m", "a",
       "i", "l", ">", "\n", " ", " ", " ", " ", "<", "/", "p", "r", "o",
       "v", "i", "d", "e", "r", ">", "\n", " ", " ", " ", " ", "<", "c",
       "o", "m", "m", "e", "n", "t", "s", ">">>
  \o (IF l.referrer # <<>> THEN <<"R", "e", "f", "e", "r", "r", "e", "r",
       ":", " ">> \o l.referrer \o <<" ">> ELSE <<>>)
  \o (IF l.landingPage # <<>> THEN <<"L", "a", "n", "d", "i", "n", "g", " ",
       "P", "a", "g", "e", ":", " ">> \o l.landingPage ELSE <<>>)
  \o <<"<", "/", "c", "o", "m", "m", "e", "n", "t", "s", ">", "\n", " ",
       " ", "<", "/", "p", "r", "o", "s", "p", "e", "c", "t", ">", "\n",
       "<", "/", "a", "d", "f", ">">>

\* html: `<pre ...>${htmlEscape(adfXml)}</pre>`

preHtml(xml) ==
     <<"<", "p", "r", "e", " ", "s", "t", "y", "l", "e", "=", "\"", "w",
       "h", "i", "t", "e", "-", "s", "p", "a", "c", "e", ":", "p", "r", "e",
       "-", "w", "r", "a", "p", ";", "f", "o", "n", "t", "-", "f", "a", "m",
       "i", "l", "y", ":", "u", "i", "-", "m", "o", "n", "o", "s", "p", "a",
       "c", "e", ",", "M", "e", "n", "l", "o", ",", "C", "o", "n", "s", "o",
       "l", "a", "s", ",", "m", "o", "n", "o", "s", "p", "a", "c", "e",
       "\"", ">">>
  \o htmlEscape(xml)
  \o <<"<", "/", "p", "r", "e", ">">>

\* `Lead: Sight Unseen Trade -- ${lead.name} -- ${tokens}`.trim()

subjectLine(l) ==
     Trim(<<"L", "e", "a", "d", ":", " ", "S", "i", "g", "h", "t", " ", "U",
       "n", "s", "e", "e", "n", " ", "T", "r", "a", "d", "e", " ", "U+2014",
       " ">> \o l.name \o <<" ", "U+2014", " ">> \o VehicleTokens(l))

\* the table revision: `New Trade-In Lead -- ${lead.name} -- ${tokens}`.trim()

subjectLine_Table(l) ==
     Trim(<<"N", "e", "w", " ", "T", "r", "a", "d", "e", "-", "I", "n", " ",
       "L", "e", "a", "d", " ", "U+2014", " ">> \o l.name \o <<" ",
       "U+2014", " ">> \o VehicleTokens(l))

\* `New Trade-In Lead - ${data.year || ""} ...`.replace(/\s+/g, " ").trim()

subject(d) ==
     Trim(CollapseSpaces(<<"N", "e", "w", " ", "T", "r", "a", "d", "e", "-",
       "I", "n", " ", "L", "e", "a", "d", " ", "U+2013",
       " ">> \o String(JsOr(Get(d, "year"),
       Str(<<>>))) \o <<" ">> \o String(JsOr(Get(d, "make"),
       Str(<<>>))) \o <<" ">> \o String(JsOr(Get(d, "model"), Str(<<>>)))))

\* `New Trade-In Lead -- ${data.name || ""} -- ${tokens}`.trim()

subject_part_001(d) ==
     Trim(<<"N", "e", "w", " ", "T", "r", "a", "d", "e", "-", "I", "n", " ",
       "L", "e", "a", "d", " ", "U+2014", " ">> \o String(JsOr(Get(d,
       "name"), Str(<<>>))) \o <<" ", "U+2014", " ">> \o DataTokens(d))

\* one <tr> of htmlTable

rowHtml(k, v) ==
     <<"\n", " ", " ", " ", " ", " ", " ", " ", " ", "<", "t", "r", ">",
       "\n", " ", " ", " ", " ", " ", " ", " ", " ", " ", " ", "<", "t",
       "h", " ", "a", "l", "i", "g", "n", "=", "\"", "l", "e", "f", "t",
       "\"", " ", "s", "t", "y", "l", "e", "=", "\"", "t", "e", "x", "t",
       "-", "t", "r", "a", "n", "s", "f", "o", "r", "m", ":", "c", "a", "p",
       "i", "t", "a", "l", "i", "z", "e", ";", "v", "e", "r", "t", "i", "c",
       "a", "l", "-", "a", "l", "i", "g", "n", ":", "t", "o", "p", ";", "c",
       "o", "l", "o", "r", ":", "#", "1", "1", "1", "8", "2", "7", ";", "p",
       "a", "d", "d", "i", "n", "g", ":", "6", "p", "x", " ", "1", "0", "p",
       "x", " ", "6", "p", "x", " ", "0", ";", "\"", ">">>
  \o esc(k)
  \o <<"<", "/", "t", "h", ">", "\n", " ", " ", " ", " ", " ", " ", " ",
       " ", " ", " ", "<", "t", "d", " ", "s", "t", "y", "l", "e", "=",
       "\"", "v", "e", "r", "t", "i", "c", "a", "l", "-", "a", "l", "i",
       "g", "n", ":", "t", "o", "p", ";", "c", "o", "l", "o", "r", ":", "#",
       "1", "1", "1", "8", "2", "7", ";", "p", "a", "d", "d", "i", "n", "g",
       ":", "6", "p", "x", " ", "0", ";", "\"", ">">>
  \o esc(v)
  \o <<"<", "/", "t", "d", ">", "\n", " ", " ", " ", " ", " ", " ", " ",
       " ", "<", "/", "t", "r", ">", "\n", " ", " ", " ", " ", " ", " ">>

\* const htmlTable = `...` : the vehicle tokens go in as they are, the rest
\* through htmlEscape (here the chained replace)

htmlTable(l, rs) ==
     <<"\n", " ", " ", " ", " ", "<", "h", "2", " ", "s", "t", "y", "l",
       "e", "=", "\"", "m", "a", "r", "g", "i", "n", ":", "0", " ", "0",
       " ", "1", "2", "p", "x", " ", "0", ";", "f", "o", "n", "t", "-", "f",
       "a", "m", "i", "l", "y", ":", "s", "y", "s", "t", "e", "m", "-", "u",
       "i", ",", "S", "e", "g", "o", "e", " ", "U", "I", ",", "R", "o", "b",
       "o", "t", "o", ",", "H", "e", "l", "v", "e", "t", "i", "c", "a", ",",
       "A", "r", "i", "a", "l", ";", "\"", ">", "N", "e", "w", " ", "T",
       "r", "a", "d", "e", "-", "I", "n", " ", "L", "e", "a", "d", "<", "/",
       "h", "2", ">", "\n", " ", " ", " ", " ", "<", "p", " ", "s", "t",
       "y", "l", "e", "=", "\"", "m", "a", "r", "g", "i", "n", ":", "0",
       " ", "0", " ", "1", "6", "p", "x", " ", "0", ";", "c", "o", "l", "o",
       "r", ":", "#", "3", "7", "4", "1", "5", "1", ";", "\"", ">", "\n",
       " ", " ", " ", " ", " ", " ">>
  \o VehicleTokens(l)
  \o <<" ">>
  \o (IF l.trim # <<>> THEN <<"U+2013", " ">> \o esc(l.trim) ELSE <<>>)
  \o <<"\n", " ", " ", " ", " ", "<", "/", "p", ">", "\n", " ", " ", " ",
       " ", "<", "t", "a", "b", "l", "e", " ", "c", "e", "l", "l", "p", "a",
       "d", "d", "i", "n", "g", "=", "\"", "6", "\"", " ", "c", "e", "l",
       "l", "s", "p", "a", "c", "i", "n", "g", "=", "\"", "0", "\"", " ",
       "b", "o", "r", "d", "e", "r", "=", "\"", "0", "\"", " ", "s", "t",
       "y", "l", "e", "=", "\"", "b", "o", "r", "d", "e", "r", "-", "c",
       "o", "l", "l", "a", "p", "s", "e", ":", "c", "o", "l", "l", "a", "p",
       "s", "e", ";", "f", "o", "n", "t", "-", "f", "a", "m", "i", "l", "y",
       ":", "s", "y", "s", "t", "e", "m", "-", "u", "i", ",", "S", "e", "g",
       "o", "e", " ", "U", "I", ",", "R", "o", "b", "o", "t", "o", ",", "H",
       "e", "l", "v", "e", "t", "i", "c", "a", ",", "A", "r", "i", "a", "l",
       ";", "f", "o", "n", "t", "-", "s", "i", "z", "e", ":", "1", "4", "p",
       "x", ";", "\"", ">", "\n", " ", " ", " ", " ", " ", " ">>
  \o Concat([i \in 1..Len(rs) |-> rowHtml(KeyChars[rs[i][1]], rs[i][2])])
  \o <<"\n", " ", " ", " ", " ", "<", "/", "t", "a", "b", "l", "e", ">",
       "\n", " ", " ", " ", " ", "<", "p", " ", "s", "t", "y", "l", "e",
       "=", "\"", "m", "a", "r", "g", "i", "n", "-", "t", "o", "p", ":",
       "1", "6", "p", "x", ";", "c", "o", "l", "o", "r", ":", "#", "6", "B",
       "7", "2", "8", "0", ";", "f", "o", "n", "t", "-", "s", "i", "z", "e",
       ":", "1", "2", "p", "x", ";", "\"", ">", "S", "u", "b", "m", "i",
       "t", "t", "e", "d", " ", "a", "t", " ">>
  \o esc(l.submittedAt)
  \o <<"<", "/", "p", ">", "\n", " ", " ">>

\* one <tr> of prettyHtml in submission-created.js

rowHtml_SC1(k, v) ==
     <<"\n", " ", " ", " ", " ", " ", " ", " ", " ", "<", "t", "r", ">",
       "\n", " ", " ", " ", " ", " ", " ", " ", " ", " ", " ", "<", "t",
       "h", " ", "a", "l", "i", "g", "n", "=", "\"", "l", "e", "f", "t",
       "\"", " ", "s", "t", "y", "l", "e", "=", "\"", "t", "e", "x", "t",
       "-", "t", "r", "a", "n", "s", "f", "o", "r", "m", ":", "c", "a", "p",
       "i", "t", "a", "l", "i", "z", "e", ";", "f", "o", "n", "t", "-", "f",
       "a", "m", "i", "l", "y", ":", "s", "y", "s", "t", "e", "m", "-", "u",
       "i", ",", "S", "e", "g", "o", "e", " ", "U", "I", ",", "R", "o", "b",
       "o", "t", "o", ",", "H", "e", "l", "v", "e", "t", "i", "c", "a", ",",
       "A", "r", "i", "a", "l", ";", "f", "o", "n", "t", "-", "s", "i", "z",
       "e", ":", "1", "4", "p", "x", ";", "c", "o", "l", "o", "r", ":", "#",
       "1", "1", "1", "8", "2", "7", ";", "p", "a", "d", "d", "i", "n", "g",
       ":", "6", "p", "x", " ", "1", "0", "p", "x", " ", "6", "p", "x", " ",
       "0", ";", "\"", ">">>
  \o esc(k)
  \o <<"<", "/", "t", "h", ">", "\n", " ", " ", " ", " ", " ", " ", " ",
       " ", " ", " ", "<", "t", "d", " ", "s", "t", "y", "l", "e", "=",
       "\"", "f", "o", "n", "t", "-", "f", "a", "m", "i", "l", "y", ":",
       "s", "y", "s", "t", "e", "m", "-", "u", "i", ",", "S", "e", "g", "o",
       "e", " ", "U", "I", ",", "R", "o", "b", "o", "t", "o", ",", "H", "e",
       "l", "v", "e", "t", "i", "c", "a", ",", "A", "r", "i", "a", "l", ";",
       "f", "o", "n", "t", "-", "s", "i", "z", "e", ":", "1", "4", "p", "x",
       ";", "c", "o", "l", "o", "r", ":", "#", "1", "1", "1", "8", "2", "7",
       ";", "p", "a", "d", "d", "i", "n", "g", ":", "6", "p", "x", " ", "0",
       ";", "\"", ">">>
  \o esc(v)
  \o <<"<", "/", "t", "d", ">", "\n", " ", " ", " ", " ", " ", " ", " ",
       " ", "<", "/", "t", "r", ">">>

prettyHtml(rs) ==
     <<"\n", " ", " ", " ", " ", "<", "h", "2", " ", "s", "t", "y", "l",
       "e", "=", "\"", "m", "a", "r", "g", "i", "n", ":", "0", " ", "0",
       " ", "1", "2", "p", "x", " ", "0", ";", "f", "o", "n", "t", "-", "f",
       "a", "m", "i", "l", "y", ":", "s", "y", "s", "t", "e", "m", "-", "u",
       "i", ",", "S", "e", "g", "o", "e", " ", "U", "I", ",", "R", "o", "b",
       "o", "t", "o", ",", "H", "e", "l", "v", "e", "t", "i", "c", "a", ",",
       "A", "r", "i", "a", "l", ";", "\"", ">", "\n", " ", " ", " ", " ",
       " ", " ", "N", "e", "w", " ", "T", "r", "a", "d", "e", "-", "I", "n",
       " ", "L", "e", "a", "d", "\n", " ", " ", " ", " ", "<", "/", "h",
       "2", ">", "\n", " ", " ", " ", " ", "<", "t", "a", "b", "l", "e",
       " ", "c", "e", "l", "l", "p", "a", "d", "d", "i", "n", "g", "=",
       "\"", "6", "\"", " ", "c", "e", "l", "l", "s", "p", "a", "c", "i",
       "n", "g", "=", "\"", "0", "\"", " ", "b", "o", "r", "d", "e", "r",
       "=", "\"", "0", "\"", " ", "s", "t", "y", "l", "e", "=", "\"", "b",
       "o", "r", "d", "e", "r", "-", "c", "o", "l", "l", "a", "p", "s", "e",
       ":", "c", "o", "l", "l", "a", "p", "s", "e", ";", "\"", ">", "\n",
       " ", " ", " ", " ", " ", " ">>
  \o Concat([i \in 1..Len(rs) |-> rowHtml_SC1(KeyChars[rs[i][1]],
       rs[i][2])])
  \o <<"\n", " ", " ", " ", " ", "<", "/", "t", "a", "b", "l", "e", ">">>

\* one <tr> of prettyHtml in the later submission-created revision

rowHtml_part_001(k, v) ==
     <<"\n", " ", " ", " ", " ", " ", " ", " ", " ", "<", "t", "r", ">",
       "\n", " ", " ", " ", " ", " ", " ", " ", " ", " ", " ", "<", "t",
       "h", " ", "a", "l", "i", "g", "n", "=", "\"", "l", "e", "f", "t",
       "\"", " ", "s", "t", "y", "l", "e", "=", "\"", "t", "e", "x", "t",
       "-", "t", "r", "a", "n", "s", "f", "o", "r", "m", ":", "c", "a", "p",
       "i", "t", "a", "l", "i", "z", "e", ";", "v", "e", "r", "t", "i", "c",
       "a", "l", "-", "a", "l", "i", "g", "n", ":", "t", "o", "p", ";", "c",
       "o", "l", "o", "r", ":", "#", "1", "1", "1", "8", "2", "7", ";", "p",
       "a", "d", "d", "i", "n", "g", ":", "6", "p", "x", " ", "1", "0", "p",
       "x", " ", "6", "p", "x", " ", "0", ";", "\"", ">">>
  \o htmlEscape(k)
  \o <<"<", "/", "t", "h", ">", "\n", " ", " ", " ", " ", " ", " ", " ",
       " ", " ", " ", "<", "t", "d", " ", "s", "t", "y", "l", "e", "=",
       "\"", "v", "e", "r", "t", "i", "c", "a", "l", "-", "a", "l", "i",
       "g", "n", ":", "t", "o", "p", ";", "c", "o", "l", "o", "r", ":", "#",
       "1", "1", "1", "8", "2", "7", ";", "p", "a", "d", "d", "i", "n", "g",
       ":", "6", "p", "x", " ", "0", ";", "\"", ">">>
  \o htmlEscape(v)
  \o <<"<", "/", "t", "d", ">", "\n", " ", " ", " ", " ", " ", " ", " ",
       " ", "<", "/", "t", "r", ">", "\n", " ", " ", " ", " ", " ", " ">>

prettyHtml_part_001(rs) ==
     <<"\n", " ", " ", " ", " ", "<", "h", "2", " ", "s", "t", "y", "l",
       "e", "=", "\"", "m", "a", "r", "g", "i", "n", ":", "0", " ", "0",
       " ", "1", "2", "p", "x", " ", "0", ";", "f", "o", "n", "t", "-", "f",
       "a", "m", "i", "l", "y", ":", "s", "y", "s", "t", "e", "m", "-", "u",
       "i", ",", "S", "e", "g", "o", "e", " ", "U", "I", ",", "R", "o", "b",
       "o", "t", "o", ",", "H", "e", "l", "v", "e", "t", "i", "c", "a", ",",
       "A", "r", "i", "a", "l", ";", "\"", ">", "N", "e", "w", " ", "T",
       "r", "a", "d", "e", "-", "I", "n", " ", "L", "e", "a", "d", "<", "/",
       "h", "2", ">", "\n", " ", " ", " ", " ", "<", "t", "a", "b", "l",
       "e", " ", "c", "e", "l", "l", "p", "a", "d", "d", "i", "n", "g", "=",
       "\"", "6", "\"", " ", "c", "e", "l", "l", "s", "p", "a", "c", "i",
       "n", "g", "=", "\"", "0", "\"", " ", "b", "o", "r", "d", "e", "r",
       "=", "\"", "0", "\"", " ", "s", "t", "y", "l", "e", "=", "\"", "b",
       "o", "r", "d", "e", "r", "-", "c", "o", "l", "l", "a", "p", "s", "e",
       ":", "c", "o", "l", "l", "a", "p", "s", "e", ";", "f", "o", "n", "t",
       "-", "f", "a", "m", "i", "l", "y", ":", "s", "y", "s", "t", "e", "m",
       "-", "u", "i", ",", "S", "e", "g", "o", "e", " ", "U", "I", ",", "R",
       "o", "b", "o", "t", "o", ",", "H", "e", "l", "v", "e", "t", "i", "c",
       "a", ",", "A", "r", "i", "a", "l", ";", "f", "o", "n", "t", "-", "s",
       "i", "z", "e", ":", "1", "4", "p", "x", ";", "\"", ">", "\n", " ",
       " ", " ", " ", " ", " ">>
  \o Concat([i \in 1..Len(rs) |-> rowHtml_part_001(KeyChars[rs[i][1]],
       rs[i][2])])
  \o <<"\n", " ", " ", " ", " ", "<", "/", "t", "a", "b", "l", "e", ">",
       "\n", " ", " ">>

\* String.prototype.toLowerCase
LowerChar(c) ==
  IF \E i \in 1..Len(Upper) : Upper[i] = c
  THEN Lower[CHOOSE i \in 1..Len(Upper) : Upper[i] = c]
  ELSE c
ToLowerCase(cs) == [i \in 1..Len(cs) |-> LowerChar(cs[i])]

\* /^https?:\/\//i.test(String(u))
IsHttpUrl(u) ==
  LET cs == ToLowerCase(String(u))
  IN \/ Len(cs) >= 7 /\ SubSeq(cs, 1, 7) = <<"h", "t", "t", "p", ":", "/", "/">>
     \/ Len(cs) >= 8 /\ SubSeq(cs, 1, 8) = <<"h", "t", "t", "p", "s", ":", "/", "/">>

\* Array.from(new Set(a)) : the first occurrence of each element stays
Dedupe(a) ==
  LET Kept(i) == \A j \in 1..(i - 1) : a[j] # a[i]
      F[i \in 0..Len(a)] ==
        IF i = 0 THEN <<>> ELSE IF Kept(i) THEN Append(F[i - 1], a[i]) ELSE F[i - 1]
  IN F[Len(a)]

\* payload.files, present only when the body is an object
PayloadFiles(ev) ==
  IF ev.body.kind = "json" /\ ev.body.t = "object" THEN ev.files ELSE <<>>

\* submission-created.js: (payload.files || []).map(f => f.url).filter(Boolean)
Gathered_SC1(ev, d) == SelectSeq(PayloadFiles(ev), Truthy)

\* the later revision: the photo fields of data (photoExterior is the one
\* that is modelled; an array contributes its elements), then the url of each
\* file that has one
Gathered_part_001(ev, d) ==
  LET val == Get(d, "photoExterior")
  IN (IF ~Truthy(val) THEN <<>> ELSE IF val.t = "array" THEN <<>> ELSE <<val>>)
       \o SelectSeq(PayloadFiles(ev), Truthy)

\* fileUrls = Array.from(new Set(fileUrls)).filter(u => /^https?:\/\//i.test(String(u)))
FileUrls(hd, ev, d) ==
  SelectSeq(Dedupe(IF hd = "SC1" THEN Gathered_SC1(ev, d) ELSE Gathered_part_001(ev, d)),
            IsHttpUrl)

\* the texts of the URLs
UrlTexts(us) == [i \in 1..Len(us) |-> String(us[i])]

MiB == 1024 * 1024
MAX_ATTACH == 6
MAX_EACH == 5 * MiB
MAX_TOTAL == 15 * MiB

\* fileUrls.length ? `<ul>${fileUrls.map(u => `<li><a href=...`).join("")}</ul>`
\*                 : `<p>No photos uploaded.</p>`
filesHtml(urls) ==
     (IF urls # <<>>
      THEN <<"<", "u", "l",
       ">">>
             \o Concat([i \in 1..Len(urls) |->
                  <<"<",
       "l", "i", ">", "<", "a", " ", "h", "r", "e", "f", "=",
       "\"">> \o esc(urls[i]) \o <<"\"",
       ">">>
                    \o esc(urls[i]) \o <<"<", "/", "a", ">",
       "<", "/", "l", "i", ">">>])
             \o <<"<", "/", "u", "l",
       ">">>
      ELSE <<"<", "p", ">", "N", "o", " ", "p", "h", "o", "t",
       "o", "s", " ", "u", "p", "l", "o", "a", "d", "e", "d", ".", "<", "/",
       "p", ">">>)

filesHtml_part_001(urls) ==
     (IF urls # <<>>
      THEN <<"<", "u", "l",
       ">">>
             \o Concat([i \in 1..Len(urls) |->
                  <<"<",
       "l", "i", ">", "<", "a", " ", "h", "r", "e", "f", "=",
       "\"">> \o htmlEscape(urls[i]) \o <<"\"",
       ">">>
                    \o htmlEscape(urls[i]) \o <<"<", "/", "a",
       ">", "<", "/", "l", "i", ">">>])
             \o <<"<", "/", "u",
       "l", ">">>
      ELSE <<"<", "p", ">", "N", "o", " ", "p", "h", "o",
       "t", "o", "s", " ", "u", "p", "l", "o", "a", "d", "e", "d", ".", "<",
       "/", "p", ">">>)

\* text: `${prettyText}\n\nPhotos:\n${fileUrls.join("\n") || "No photos uploaded."}\n`
photosText(rs, urls) ==
  textLines(rs) \o <<"\n", "\n", "P", "h", "o", "t", "o", "s", ":", "\n">>
    \o (IF Join(urls, <<"\n">>) # <<>> THEN Join(urls, <<"\n">>)
        ELSE <<"N", "o", " ", "p", "h", "o", "t", "o", "s", " ", "u", "p", "l", "o", "a", "d", "e", "d", ".">>)
    \o <<"\n">>

\* html: `${prettyHtml}<h3 style="margin-top:16px;">Photos</h3>${filesHtml}`
photosHeading == 
     <<"<", "h", "3", " ", "s", "t", "y", "l", "e", "=", "\"", "m", "a",
       "r", "g", "i", "n", "-", "t", "o", "p", ":", "1", "6", "p", "x", ";",
       "\"", ">", "P", "h", "o", "t", "o", "s", "<", "/", "h", "3", ">">>

NoMessage == [subject |-> <<>>, text |-> <<>>, html |-> <<>>, attachments |-> <<>>]

\* the object given to sg.send: subject, text, html and, in the
\* submission-created handlers, attachments (undefined when there is none)
Message(hd, d, l, urls, atts) ==
  CASE hd = "TA1" -> [subject |-> subjectLine(l), text |-> adfXml(l),
                      html |-> preHtml(adfXml(l)), attachments |-> <<>>]
    [] hd = "TA3" -> [subject |-> subjectLine(l), text |-> adfXml_part_000(l),
                      html |-> preHtml(adfXml_part_000(l)), attachments |-> <<>>]
    [] hd = "TA2" -> [subject |-> subjectLine_Table(l), text |-> textLines(rows(d, l)),
                      html |-> htmlTable(l, rows(d, l)), attachments |-> <<>>]
    [] hd = "SC1" -> [subject |-> subject(d),
                      text |-> photosText(rows_SC1(d), UrlTexts(urls)),
                      html |-> prettyHtml(rows_SC1(d)) \o photosHeading
                                 \o filesHtml(UrlTexts(urls)),
                      attachments |-> atts]
    [] OTHER -> [subject |-> subject_part_001(d),
                 text |-> photosText(rows_part_001(d), UrlTexts(urls)),
                 html |-> prettyHtml_part_001(rows_part_001(d)) \o photosHeading
                            \o filesHtml_part_001(UrlTexts(urls)),
                 attachments |-> atts]

\* the message sg.send was called with: rendered from the parsed body and the
\* lead at the call; they, the file URLs and the attachments do not change
\* afterwards
msg ==
  IF sendCalls = 0 THEN NoMessage
  ELSE Message(h, data, sentLead, fileUrls, attachments)

(***************************************************************************)
(* The handler                                                             *)
(***************************************************************************)
\* the promise of fetch(url) in fetchAsAttachment: not made, pending, rejected
\* (or resolved with a body whose arrayBuffer() rejects), or resolved with
\* res.ok and the byte length of the body
NoFetch == [state |-> "none", ok |-> FALSE, size |-> 0]
PendingFetch == [state |-> "pending", ok |-> FALSE, size |-> 0]
FetchSizes == {MiB, MAX_EACH, MAX_EACH + 1}
FetchResults ==
  {[state |-> "rejected", ok |-> FALSE, size |-> 0],
   [state |-> "resolved", ok |-> FALSE, size |-> 0]}
    \cup {[state |-> "resolved", ok |-> TRUE, size |-> n] : n \in FetchSizes}

\* the locals of an invocation that has not begun
NotBegun ==
  [h |-> "none", event |-> NoEvent, pc |-> "idle", data |-> NoData, lead |-> NoLead,
   mail |-> "none", backup |-> "none", backupUrl |-> <<>>, sendCalls |-> 0,
   backupCalls |-> 0, parseCalls |-> 0, sentLead |-> NoLead, fileUrls |-> <<>>,
   attachments |-> <<>>, total |-> 0, ix |-> 0, fetch |-> NoFetch,
   response |-> NoResponse, outcome |-> "none"]

\* no page is open
NoClient == [page |-> "none"]

\* no invocation has begun
ServerInit ==
  /\ env \in Envs
  /\ h = "none"
  /\ event = NoEvent
  /\ pc = "idle"
  /\ data = NoData
  /\ lead = NoLead
  /\ mail = "none"
  /\ backup = "none"
  /\ backupUrl = <<>>
  /\ sendCalls = 0
  /\ backupCalls = 0
  /\ parseCalls = 0
  /\ sentLead = NoLead
  /\ fileUrls = <<>>
  /\ attachments = <<>>
  /\ total = 0
  /\ ix = 0
  /\ fetch = NoFetch
  /\ other = NotBegun
  /\ response = NoResponse
  /\ outcome = "none"

Init == ServerInit /\ client = NoClient

\* return r
Return(r) ==
  /\ response' = r
  /\ outcome' = "returned"
  /\ pc' = "done"

\* an exception leaves the handler: the promise it returned rejects
Throw ==
  /\ response' = NoResponse
  /\ outcome' = "threw"
  /\ pc' = "done"

\* the platform invokes handler hd with event ev
Receive(hd, ev) ==
  /\ pc = "idle"
  /\ h' = hd
  /\ event' = ev
  /\ pc' = IF hd \in TA THEN "gate" ELSE "parse"
  /\ data' = NoData
  /\ lead' = NoLead
  /\ mail' = "none"
  /\ backup' = "none"
  /\ backupUrl' = <<>>
  /\ sendCalls' = 0
  /\ backupCalls' = 0
  /\ parseCalls' = 0
  /\ sentLead' = NoLead
  /\ fileUrls' = <<>>
  /\ attachments' = <<>>
  /\ total' = 0
  /\ ix' = 0
  /\ fetch' = NoFetch
  /\ response' = NoResponse
  /\ outcome' = "running"
  /\ UNCHANGED <<env, client, other>>

MethodGate_OptionsOnly ==
  /\ pc = "gate"
  /\ IF event.httpMethod = "OPTIONS" THEN Return(PreflightResponse(h))
     ELSE /\ pc' = "parse"
          /\ UNCHANGED <<response, outcome>>
  /\ UNCHANGED <<env, client, other, fileUrls, attachments, total, ix, fetch, h,
                 event, data, lead, mail, backup, backupUrl, sendCalls,
                 backupCalls, parseCalls, sentLead>>

\* the two method tests at the head of the trade-appraisal handlers
MethodGate ==
  /\ pc = "gate"
  /\ IF event.httpMethod = "OPTIONS" THEN Return(PreflightResponse(h))
     ELSE IF event.httpMethod # "POST" THEN Return(MethodNotAllowedResponse(h))
     ELSE /\ pc' = "parse"
          /\ UNCHANGED <<response, outcome>>
  /\ UNCHANGED <<env, client, other, fileUrls, attachments, total, ix, fetch, h,
                 event, data, lead, mail, backup, backupUrl, sendCalls,
                 backupCalls, parseCalls, sentLead>>

\* try { data = JSON.parse(event.body || "{}") } catch { return 400 }
ParseBody ==
  /\ pc = "parse"
  /\ parseCalls' = parseCalls + 1
  /\ LET r == JsonParse(event.body) IN
       IF ~r.ok
       THEN /\ Return(InvalidJsonResponse(h))
            /\ UNCHANGED data
       ELSE /\ data' = [t |-> r.t, f |-> r.f]
            /\ pc' = "honeypot"
            /\ UNCHANGED <<response, outcome>>
  /\ UNCHANGED <<env, client, other, fileUrls, attachments, total, ix, fetch, h,
                 event, lead, mail, backup, backupUrl, sendCalls,
                 backupCalls, sentLead>>

\* the honeypot test; in the submission-created handlers it follows
\* body.payload || {} and payload.data || {}, where body.payload throws on a
\* null body and every other non-object body leaves data = {}
Honeypot ==
  /\ pc = "honeypot"
  /\ IF HoneypotThrows(h, data) THEN Throw
     ELSE IF HoneypotHit(h, data) THEN Return(HoneypotResponse(h))
     ELSE /\ pc' = IF h \in TA THEN "normalize" ELSE "files"
          /\ UNCHANGED <<response, outcome>>
  /\ UNCHANGED <<env, client, other, fileUrls, attachments, total, ix, fetch, h,
                 event, data, lead, mail, backup, backupUrl, sendCalls,
                 backupCalls, parseCalls, sentLead>>

\* let fileUrls = [] ... fileUrls = Array.from(new Set(fileUrls)).filter(...);
\* const attachments = []; let total = 0
GatherFiles ==
  /\ pc = "files"
  /\ fileUrls' = FileUrls(h, event, data)
  /\ attachments' = <<>>
  /\ total' = 0
  /\ ix' = 0
  /\ pc' = "loop"
  /\ UNCHANGED <<env, client, other, fetch, h, event, data, lead, mail, backup, backupUrl,
                 sendCalls, backupCalls, parseCalls, sentLead, response, outcome>>

LoopHead_NoCountLimit ==
  /\ pc = "loop"
  /\ IF ix < Len(fileUrls)
     THEN /\ fetch' = PendingFetch
          /\ pc' = "await_fetch"
     ELSE /\ fetch' = fetch
          /\ pc' = "send"
  /\ UNCHANGED <<env, client, other, fileUrls, attachments, total, ix, h, event, data,
                 lead, mail, backup, backupUrl, sendCalls, backupCalls, parseCalls,
                 sentLead, response, outcome>>
\* for (let i = 0; i < fileUrls.length && attachments.length < MAX_ATTACH; i++)
\*   await fetchAsAttachment(fileUrls[i], i): the loop test, then fetch(url)
LoopHead ==
  /\ pc = "loop"
  /\ IF ix < Len(fileUrls) /\ Len(attachments) < MAX_ATTACH
     THEN /\ fetch' = PendingFetch
          /\ pc' = "await_fetch"
     ELSE /\ fetch' = fetch
          /\ pc' = "send"
  /\ UNCHANGED <<env, client, other, fileUrls, attachments, total, ix, h, event, data,
                 lead, mail, backup, backupUrl, sendCalls, backupCalls, parseCalls,
                 sentLead, response, outcome>>

\* the file host answers, or the request fails
FetchSettles(r) ==
  /\ pc = "await_fetch"
  /\ fetch = PendingFetch
  /\ fetch' = r
  /\ UNCHANGED <<env, client, other, fileUrls, attachments, total, ix, h, event, pc, data,
                 lead, mail, backup, backupUrl, sendCalls, backupCalls, parseCalls,
                 sentLead, response, outcome>>

\* one attachment: the URL it was read from, its file number (idx + 1) and
\* its size in bytes
Attachment(url, n, size) == [url |-> url, number |-> n, size |-> size]

\* the rest of fetchAsAttachment once fetch has settled: if (!res.ok) return;
\* if (size > MAX_EACH || total + size > MAX_TOTAL) return; attachments.push(...);
\* total += size; every exception is caught; then i++
AfterFetch ==
  /\ pc = "await_fetch"
  /\ fetch.state \in {"resolved", "rejected"}
  /\ IF /\ fetch.state = "resolved"
        /\ fetch.ok
        /\ ~(fetch.size > MAX_EACH \/ total + fetch.size > MAX_TOTAL)
     THEN /\ attachments' = Append(attachments,
                                   Attachment(fileUrls[ix + 1], ix + 1, fetch.size))
          /\ total' = total + fetch.size
     ELSE UNCHANGED <<attachments, total>>
  /\ ix' = ix + 1
  /\ pc' = "loop"
  /\ fetch' = NoFetch
  /\ UNCHANGED <<env, client, other, fileUrls, h, event, data, lead, mail, backup,
                 backupUrl, sendCalls, backupCalls, parseCalls, sentLead, response,
                 outcome>>

\* const lead = {...}
Normalize ==
  /\ pc = "normalize"
  /\ IF NormalizeThrows(h, data)
     THEN /\ Throw
          /\ UNCHANGED lead
     ELSE /\ lead' = BuildLead(h, data)
          /\ pc' = "required"
          /\ UNCHANGED <<response, outcome>>
  /\ UNCHANGED <<env, client, other, fileUrls, attachments, total, ix, fetch, h,
                 event, data, mail, backup, backupUrl, sendCalls,
                 backupCalls, parseCalls, sentLead>>

\* if (!lead.name || ...) return 400
Required ==
  /\ pc = "required"
  /\ IF MissingRequired(lead) THEN Return(MissingResponse(h))
     ELSE /\ pc' = "send"
          /\ UNCHANGED <<response, outcome>>
  /\ UNCHANGED <<env, client, other, fileUrls, attachments, total, ix, fetch, h,
                 event, data, lead, mail, backup, backupUrl, sendCalls,
                 backupCalls, parseCalls, sentLead>>

\* render the payload and call sg.send; the handler suspends on the await.
\* In the submission-created handlers this segment also builds the rows and
\* fetches the attachments: fetchAsAttachment catches every error, so those
\* fetches do not change which statement runs next.
Send ==
  /\ pc = "send"
  /\ sendCalls' = sendCalls + 1
  /\ sentLead' = lead
  /\ mail' = "pending"
  /\ pc' = "await_send"
  /\ UNCHANGED <<env, client, other, fileUrls, attachments, total, ix, fetch, h,
                 event, data, lead, backup, backupUrl, backupCalls,
                 parseCalls, response, outcome>>

\* the e-mail transport settles the promise of sg.send
SendSettles(r) ==
  /\ mail = "pending"
  /\ mail' = r
  /\ UNCHANGED <<env, client, other, fileUrls, attachments, total, ix, fetch, h,
                 event, pc, data, lead, backup, backupUrl, sendCalls,
                 backupCalls, parseCalls, sentLead, response, outcome>>

AfterSend_FallThrough ==
  /\ pc = "await_send"
  /\ mail \in {"resolved", "rejected"}
  /\ IF BackupConfigured(h, env)
     THEN /\ backup' = "pending"
          /\ backupUrl' = BackupUrl(env)
          /\ backupCalls' = backupCalls + 1
          /\ pc' = "await_backup"
          /\ UNCHANGED <<response, outcome>>
     ELSE /\ Return(SuccessResponse(h))
          /\ UNCHANGED <<backup, backupUrl, backupCalls>>
  /\ UNCHANGED <<env, client, other, fileUrls, attachments, total, ix, fetch, h,
                 event, data, lead, mail, sendCalls, parseCalls, sentLead>>

AfterSend_Retry ==
  /\ pc = "await_send"
  /\ mail \in {"resolved", "rejected"}
  /\ IF mail = "rejected" /\ sendCalls < 2
     THEN /\ pc' = "send"
          /\ UNCHANGED <<backup, backupUrl, backupCalls, response, outcome>>
     ELSE IF mail = "rejected"
     THEN /\ Return(SendFailedResponse(h))
          /\ UNCHANGED <<backup, backupUrl, backupCalls>>
     ELSE IF BackupConfigured(h, env)
     THEN /\ backup' = "pending"
          /\ backupUrl' = BackupUrl(env)
          /\ backupCalls' = backupCalls + 1
          /\ pc' = "await_backup"
          /\ UNCHANGED <<response, outcome>>
     ELSE /\ Return(SuccessResponse(h))
          /\ UNCHANGED <<backup, backupUrl, backupCalls>>
  /\ UNCHANGED <<env, client, other, fileUrls, attachments, total, ix, fetch, h,
                 event, data, lead, mail, sendCalls, parseCalls, sentLead>>

\* the continuation of await sg.send: the catch block returns 502, otherwise
\* the backup block runs
AfterSend ==
  /\ pc = "await_send"
  /\ mail \in {"resolved", "rejected"}
  /\ IF mail = "rejected"
     THEN /\ Return(SendFailedResponse(h))
          /\ UNCHANGED <<backup, backupUrl, backupCalls>>
     ELSE IF BackupConfigured(h, env)
     THEN /\ backup' = "pending"
          /\ backupUrl' = BackupUrl(env)
          /\ backupCalls' = backupCalls + 1
          /\ pc' = "await_backup"
          /\ UNCHANGED <<response, outcome>>
     ELSE /\ Return(SuccessResponse(h))
          /\ UNCHANGED <<backup, backupUrl, backupCalls>>
  /\ UNCHANGED <<env, client, other, fileUrls, attachments, total, ix, fetch, h,
                 event, data, lead, mail, sendCalls, parseCalls, sentLead>>

\* the webhook answers ("resolved"), the connection fails ("rejected"), or
\* nothing ever comes back ("hung"): fetch is called without a timeout
BackupSettles(r) ==
  /\ backup = "pending"
  /\ backup' = r
  /\ UNCHANGED <<env, client, other, fileUrls, attachments, total, ix, fetch, h,
                 event, pc, data, lead, mail, backupUrl, sendCalls,
                 backupCalls, parseCalls, sentLead, response, outcome>>

AfterBackup_NoCatch ==
  /\ pc = "await_backup"
  /\ backup \in {"resolved", "rejected"}
  /\ IF backup = "rejected" THEN Throw ELSE Return(SuccessResponse(h))
  /\ UNCHANGED <<env, client, other, fileUrls, attachments, total, ix, fetch, h,
                 event, data, lead, mail, backup, backupUrl, sendCalls,
                 backupCalls, parseCalls, sentLead>>

AfterBackup_OnlyOnSuccess ==
  /\ pc = "await_backup"
  /\ backup = "resolved"
  /\ Return(SuccessResponse(h))
  /\ UNCHANGED <<env, client, other, fileUrls, attachments, total, ix, fetch, h,
                 event, data, lead, mail, backup, backupUrl, sendCalls,
                 backupCalls, parseCalls, sentLead>>

\* the continuation of await fetch(u, ...): both outcomes reach the final return
AfterBackup ==
  /\ pc = "await_backup"
  /\ backup \in {"resolved", "rejected"}
  /\ Return(SuccessResponse(h))
  /\ UNCHANGED <<env, client, other, fileUrls, attachments, total, ix, fetch, h,
                 event, data, lead, mail, backup, backupUrl, sendCalls,
                 backupCalls, parseCalls, sentLead>>

(***************************************************************************)
(* Requests that exercise normalization: complete leads in which one field *)
(* is varied at a time                                                     *)
(***************************************************************************)
EmptyArray == [t |-> "array", s |-> <<>>]
EmptyObject == [t |-> "object", s |-> <<>>]
NonStringVals == {Null, Num(<<"5">>), Num(<<"0">>), True, EmptyArray, EmptyObject}

\* the members a lead field is read from
LeadInputs == Fields \ {"company", "botField", "honeypot", "<i>", "Zip", "photoExterior"}

BaseFields ==
  [NoFields EXCEPT !.name = Str(<<"a">>), !.email = Str(<<"a", "@", "b">>),
                   !.phone = Str(<<"2">>), !.vin = Str(<<"a", "1">>)]

MaxDigits == 16

\* the digits 1234567890123... : n of them
DigitRun(n) ==
  [i \in 1..n |-> <<"1", "2", "3", "4", "5", "6", "7", "8", "9", "0">>[((i - 1) % 10) + 1]]

PhoneStrings ==
  {p \o DigitRun(n) \o x :
     p \in {<<>>, <<" ", "(">>}, n \in 0..MaxDigits, x \in {<<>>, <<"-", "7", " ">>}}
  \cup {<<"(", "6", "0", "3", ")", " ", "5", "5", "5", "-", "1", "2", "1", "2", " ", "e", "x", "t", "9">>,
        <<"(", "5", "5", "5", ")", " ", "1", "2", "3", "-", "4", "5", "6", "7">>}

PhoneRawInputs == {Undef, Null, Num(<<"5">>), Str(<<>>), Str(<<" ">>), Str(<<"x">>)}
                    \cup {Str(cs) : cs \in PhoneStrings}
PhoneInputs == {Undef, Str(<<"-">>), Str(<<"2">>), Str(<<"4", " ", "4">>)}

VinStrings == {<<"1", "h", "g", "c", "m", "8", "2", "6", "3", "3", "a", "0", "0", "4", "3", "5", "2">>,
               <<"1", "H", "G", "C", "M", "8", "2", "6", "3", "3", "A", "0", "0", "4", "3", "5", "2">>,
               <<" ", " ", "1", "h", "G", " ", "a", " ">>, <<" ">>, <<"x", " ", " ", "y">>}

NormObjects ==
  {[BaseFields EXCEPT ![k] = v] : k \in LeadInputs, v \in NonStringVals}
  \cup {[BaseFields EXCEPT !.phoneRaw = r, !.phone = p] :
          r \in PhoneRawInputs, p \in PhoneInputs}
  \cup {[BaseFields EXCEPT !.vin = Str(cs)] : cs \in VinStrings}

NormEvents ==
  {[httpMethod |-> "POST", body |-> [kind |-> "json", t |-> "object", f |-> o],
    files |-> <<>>] :
     o \in NormObjects}

\* submitted texts with markup, blanks and runs of spaces
RenderNames == {Str(<<"J", "a", "n", "e", " ", "D", "o", "e">>), Str(<<"a", " ", " ", "b">>),
                Str(<<"<", "s", "c", "r", "i", "p", "t", ">", "x", "<", "/", "s", "c", "r", "i", "p", "t", ">">>),
                Str(<<"<", "m", "a", "k", "e", ">", "<", "/", "m", "a", "k", "e", ">">>)}
RenderYears == {Undef, Str(<<"2", "0", "2", "0">>), Str(<<" ">>), Num(<<"5">>)}
RenderMakes == {Undef, Str(<<>>), Str(<<"h", "o", "n", "d", "a">>), Str(<<"<", "b", ">", "&">>)}
RenderModels == {Undef, Str(<<"C", "i", "v", "i", "c">>), Str(<<"L", " ", " ", "R">>)}
RenderTrims == {Undef, Str(<<"E", "X">>), Str(<<"<", "b", ">">>)}

RenderObjects ==
  {[BaseFields EXCEPT !.name = n, !.year = y, !.make = m, !.model = o, !.trim = t] :
     n \in RenderNames, y \in RenderYears, m \in RenderMakes,
     o \in RenderModels, t \in RenderTrims}
  \cup {[BaseFields EXCEPT !.referrer = r, !.landingPage = p, !["<i>"] = x] :
          r \in {Undef, Str(<<"r", "&", "<", "b", ">">>)},
          p \in {Undef, Str(<<"/", "p">>)},
          x \in {Undef, Str(<<"x", "<", "b", ">">>), Num(<<"5">>)}}
  \cup {[BaseFields EXCEPT !.phoneRaw = r, !.botField = b, !["<i>"] = x,
                           !.Zip = z, !.mileage = m] :
          r \in {Undef, Str(<<"(", "1">>)},
          b \in {Undef, Str(<<" ">>), Str(<<"x">>)},
          x \in {Undef, Str(<<"x">>)},
          z \in {Undef, Null, Str(<<"0">>)},
          m \in {Undef, Num(<<"5">>)}}

\* the submission of the end-to-end scenario
JaneDoe ==
  [NoFields EXCEPT
     !.name = Str(<<"J", "a", "n", "e", " ", "D", "o", "e">>),
     !.email = Str(<<"j", "a", "n", "e", "@", "e", "x", "a", "m", "p", "l", "e", ".", "c", "o", "m">>),
     !.phoneRaw = Str(<<"(", "5", "5", "5", ")", " ", "1", "2", "3", "-", "4", "5", "6", "7">>),
     !.vin = Str(<<"1", "h", "g", "c", "m", "8", "2", "6", "3", "3", "a", "0", "0", "4", "3", "5", "2">>),
     !.year = Str(<<"2", "0", "2", "0">>),
     !.make = Str(<<"h", "o", "n", "d", "a">>),
     !.model = Str(<<"C", "i", "v", "i", "c">>)]

RenderEvents ==
  {[httpMethod |-> "POST", body |-> [kind |-> "json", t |-> "object", f |-> o],
    files |-> <<>>] :
     o \in RenderObjects \cup {JaneDoe}}
    \cup {[httpMethod |-> "POST", body |-> [kind |-> "json", t |-> "object", f |-> JaneDoe],
           files |-> <<Str(<<"h", "t", "t", "p", ":", "/", "/", "a">>)>>]}

Next ==
  \/ \E hd \in Handlers : \E ev \in Events(hd) : Receive(hd, ev)
  \/ MethodGate
  \/ ParseBody
  \/ Honeypot
  \/ GatherFiles
  \/ LoopHead
  \/ \E r \in FetchResults : FetchSettles(r)
  \/ AfterFetch
  \/ Normalize
  \/ Required
  \/ Send
  \/ \E r \in {"resolved", "rejected"} : SendSettles(r)
  \/ AfterSend
  \/ \E r \in {"resolved", "rejected", "hung"} : BackupSettles(r)
  \/ AfterBackup

Spec == Init /\ [][Next]_vars

\* the event loop runs the handler's next synchronous segment whenever one is
\* runnable; nothing is assumed of the e-mail transport or of the webhook
HandlerStep ==
  \/ MethodGate
  \/ ParseBody
  \/ Honeypot
  \/ GatherFiles
  \/ LoopHead
  \/ AfterFetch
  \/ Normalize
  \/ Required
  \/ Send
  \/ AfterSend
  \/ AfterBackup

FairSpec == Spec /\ WF_vars(HandlerStep)

\* the trade-appraisal handlers on the normalization requests
NormInit ==
  /\ Init
  /\ Truthy(env.SHEETS_WEBHOOK_URL)
  /\ Truthy(env.SHEETS_SHARED_SECRET)

NormNext ==
  \/ \E hd \in TA : \E ev \in NormEvents : Receive(hd, ev)
  \/ MethodGate
  \/ ParseBody
  \/ Honeypot
  \/ Normalize
  \/ Required
  \/ Send
  \/ \E r \in {"resolved", "rejected"} : SendSettles(r)
  \/ AfterSend
  \/ \E r \in {"resolved", "rejected", "hung"} : BackupSettles(r)
  \/ AfterBackup

NormSpec == NormInit /\ [][NormNext]_vars

\* every handler revision on the submissions of RenderEvents
RenderInit ==
  /\ Init
  /\ Truthy(env.SHEETS_WEBHOOK_URL)
  /\ Truthy(env.SHEETS_SHARED_SECRET)

RenderNext ==
  \/ \E hd \in Handlers : \E ev \in RenderEvents : Receive(hd, ev)
  \/ MethodGate
  \/ ParseBody
  \/ Honeypot
  \/ GatherFiles
  \/ LoopHead
  \/ \E r \in FetchResults : FetchSettles(r)
  \/ AfterFetch
  \/ Normalize
  \/ Required
  \/ Send
  \/ \E r \in {"resolved", "rejected"} : SendSettles(r)
  \/ AfterSend
  \/ \E r \in {"resolved", "rejected", "hung"} : BackupSettles(r)
  \/ AfterBackup

RenderSpec == RenderInit /\ [][RenderNext]_vars

(***************************************************************************)
(* Properties                                                              *)
(***************************************************************************)
UrlSet == Truthy(env.SHEETS_WEBHOOK_URL)
SecretSet == Truthy(env.SHEETS_SHARED_SECRET)
Returned(code, b) ==
  /\ pc = "done"
  /\ outcome = "returned"
  /\ response.statusCode = code
  /\ response.body = b

\* C1: when sg.send fails the response is 502 "Failed to send lead", with or
\* without a webhook URL and secret, and the backup webhook is never called.
C1_PrimaryFailureIs502 ==
  mail = "rejected" =>
    /\ backupCalls = 0
    /\ backup = "none"
    /\ pc \in {"await_send", "done"}
    /\ pc = "done" => Returned(502, "Failed to send lead")

C1_Witness ==
  /\ mail = "rejected"
  /\ UrlSet /\ SecretSet
  /\ h \in WithBackup
  /\ Returned(502, "Failed to send lead")

\* C2: after a successful primary delivery a backup call that throws leaves
\* the response at status 200, with body {"ok":true} in the trade-appraisal
\* handlers.
C2_BackupFailureKeeps200 ==
  (pc = "done" /\ mail = "resolved" /\ backup = "rejected") =>
    /\ outcome = "returned"
    /\ response.statusCode = 200
    /\ h \in TA => response.body = OkTrue

C2_Witness ==
  /\ h \in TA
  /\ mail = "resolved"
  /\ backup = "rejected"
  /\ Returned(200, OkTrue)

\* C3 as stated: once primary delivery has succeeded the handler eventually
\* returns 200, whatever the backup webhook does.
C3_NeverBlocked ==
  (mail = "resolved") ~> (pc = "done" /\ outcome = "returned" /\ response.statusCode = 200)

\* C3 amended: once primary delivery has succeeded and the backup call, if one
\* was made, has settled (resolved or rejected), the handler eventually
\* returns 200; the response waits for the backup call to settle.
C3_ReturnsOnceBackupSettles ==
  (mail = "resolved" /\ (backup \in {"resolved", "rejected"} \/ ~BackupConfigured(h, env)))
    ~> (pc = "done" /\ outcome = "returned" /\ response.statusCode = 200)

C3_Witness ==
  /\ mail = "resolved"
  /\ backup = "resolved"
  /\ backupCalls = 1
  /\ Returned(200, IF h \in TA THEN OkTrue ELSE "ok")

\* spec-level reading of a submitted value: a non-string counts as empty
Submitted(v) == IF v.t = "string" THEN Trim(v.s) ELSE <<>>
HoneypotEmpty(v) == v.t \in {"undefined", "null"} \/ (v.t = "string" /\ Trim(v.s) = <<>>)
HoneypotFilled(v) == Truthy(v) /\ (v.t = "string" => Trim(v.s) # <<>>)
SomeRequiredEmpty(d) ==
  \/ Submitted(Get(d, "name")) = <<>>
  \/ Submitted(Get(d, "email")) = <<>>
  \/ StripNonDigits(Submitted(JsOr(Get(d, "phoneRaw"), Get(d, "phone")))) = <<>>
  \/ Submitted(Get(d, "vin")) = <<>>
FinishedPost ==
  /\ h \in TA
  /\ pc = "done"
  /\ event.httpMethod = "POST"
  /\ data.t = "object"

\* C4: a POST whose normalized name, email, phone or vin is empty and whose
\* honeypot is empty is answered 400 "Missing required fields" and reaches
\* neither the e-mail transport nor the backup webhook; the e-mail transport
\* only ever sees a lead with all four fields non-empty.
C4_MissingFieldsRejected ==
  /\ (FinishedPost /\ HoneypotEmpty(Get(data, "company")) /\ SomeRequiredEmpty(data)) =>
       /\ Returned(400, "Missing required fields")
       /\ sendCalls = 0
       /\ backupCalls = 0
  /\ (h \in TA /\ sendCalls > 0) =>
       /\ sentLead.name # <<>>
       /\ sentLead.email # <<>>
       /\ sentLead.phone # <<>>
       /\ sentLead.vin # <<>>

\* C5: a POST whose JSON body has a non-empty company value is answered
\* 200 {"ok":true,"silent":true} and reaches neither the e-mail transport nor
\* the backup webhook, whatever the other fields are.
C5_HoneypotSilentSuccess ==
  (FinishedPost /\ HoneypotFilled(Get(data, "company"))) =>
    /\ Returned(200, OkSilent)
    /\ sendCalls = 0
    /\ backupCalls = 0

\* C6: the backup webhook is called at most once per request, only after the
\* primary delivery of that request succeeded and only when a webhook URL is
\* configured; without a URL no backup call is made on any path.
C6_BackupOnlyAfterPrimary ==
  /\ backupCalls <= 1
  /\ backupCalls > 0 => (mail = "resolved" /\ sendCalls = 1 /\ UrlSet)
  /\ backup # "none" => backupCalls = 1
  /\ ~UrlSet => (backupCalls = 0 /\ backup = "none")

C6_Witness ==
  /\ backupCalls = 1
  /\ mail = "resolved"
  /\ UrlSet
  /\ pc = "done"

\* C7: sg.send is invoked at most once per request, and a failed invocation
\* ends the request with 502 without a second attempt.
C7_NoRetry ==
  /\ sendCalls <= 1
  /\ mail # "none" => sendCalls = 1
  /\ mail = "rejected" =>
       /\ pc \in {"await_send", "done"}
       /\ pc = "done" => Returned(502, "Failed to send lead")

C7_Witness ==
  /\ h = "SC2"
  /\ sendCalls = 1
  /\ mail = "rejected"
  /\ Returned(502, "Failed to send lead")

\* C8: every request to a trade-appraisal handler, whatever its method and
\* body, ends in a terminal state with a response object; the handler never
\* terminates by an uncaught exception.
C8_AlwaysResponds ==
  (h \in TA /\ pc = "done") =>
    /\ outcome = "returned"
    /\ response.statusCode \in {200, 400, 405, 502}

\* C9 as stated: every response of every lead-intake handler carries both
\* CORS headers.
C9_CorsOnEveryResponse ==
  outcome = "returned" => CorsHeaders \subseteq response.headers

\* C9 amended: every response of a trade-appraisal handler, on every path,
\* carries both CORS headers; the responses of the submission-created
\* handlers carry no headers.
C9_CorsOnTradeAppraisalResponses ==
  outcome = "returned" =>
    /\ h \in TA => CorsHeaders \subseteq response.headers
    /\ h \in SC => response.headers = {}

C9_Witness ==
  /\ h \in TA
  /\ outcome = "returned"
  /\ response.statusCode = 405
  /\ CorsHeaders \subseteq response.headers

GateHolds ==
  /\ (event.httpMethod = "OPTIONS" /\ pc = "done") => Returned(200, "ok")
  /\ (event.httpMethod \notin {"OPTIONS", "POST", ""} /\ pc = "done") =>
       Returned(405, "Method Not Allowed")
  /\ event.httpMethod \notin {"POST", ""} =>
       (parseCalls = 0 /\ sendCalls = 0 /\ backupCalls = 0)

\* C10 as stated: in every handler OPTIONS is answered 200 and any method
\* other than POST or OPTIONS 405, without parsing the body or calling the
\* e-mail transport or the backup webhook.
C10_MethodGating == GateHolds

\* C10 amended: in the trade-appraisal handlers OPTIONS is answered 200 and
\* any method other than POST or OPTIONS 405, without parsing the body or
\* calling the e-mail transport or the backup webhook, so only POST requests
\* reach delivery there; the submission-created handlers do not look at the
\* method.
C10_MethodGatingTradeAppraisal == h \in TA => GateHolds

C10_Witness ==
  /\ h \in TA
  /\ event.httpMethod = "GET"
  /\ event.body.kind = "json"
  /\ parseCalls = 0
  /\ Returned(405, "Method Not Allowed")

\* C11: a POST to a trade-appraisal handler whose body is not valid JSON is
\* answered 400 "Invalid JSON", and neither the e-mail transport nor the
\* backup webhook is called.
C11_InvalidJsonRejected ==
  (h \in TA /\ event.httpMethod = "POST" /\ event.body.kind = "invalid"
     /\ pc \notin {"gate", "parse"}) =>
    /\ Returned(400, "Invalid JSON")
    /\ data = NoData
    /\ sendCalls = 0 /\ mail = "none"
    /\ backupCalls = 0 /\ backup = "none"

C11_Witness ==
  /\ h \in TA
  /\ event.httpMethod = "POST"
  /\ event.body.kind = "invalid"
  /\ parseCalls = 1
  /\ Returned(400, "Invalid JSON")

\* C12: in every trade-appraisal revision normalization yields a Lead in which
\* each field whose submitted value is not a string (number, boolean, null,
\* array, object) is the empty string.
C12_NonStringBecomesEmpty ==
  (FinishedPost /\ HoneypotEmpty(Get(data, "company"))) =>
    /\ lead.submittedAt # <<>>
    /\ \A k \in LeadInputs \ {"phoneRaw", "phone"} :
         Get(data, k).t # "string" => lead[k] = <<>>
    /\ JsOr(Get(data, "phoneRaw"), Get(data, "phone")).t # "string" => lead.phone = <<>>

DigitChars == {"0", "1", "2", "3", "4", "5", "6", "7", "8", "9"}
DigitsOnly(cs) == \A i \in 1..Len(cs) : cs[i] \in DigitChars

\* C13: the phone of every normalized Lead, and so of every lead handed to the
\* e-mail transport or the backup webhook, consists of digits 0-9 only and
\* has at most 15 characters.
C13_PhoneDigitsAtMost15 ==
  /\ DigitsOnly(lead.phone) /\ Len(lead.phone) <= 15
  /\ DigitsOnly(sentLead.phone) /\ Len(sentLead.phone) <= 15

C13_Witness ==
  /\ Get(data, "phoneRaw").t = "string"
  /\ Len(Get(data, "phoneRaw").s) > 15
  /\ ~DigitsOnly(Get(data, "phoneRaw").s)
  /\ Len(sentLead.phone) = 15
  /\ sendCalls = 1
  /\ backupCalls = 1

ExtPhone == <<"(", "6", "0", "3", ")", " ", "5", "5", "5", "-", "1", "2", "1", "2", " ", "e", "x", "t", "9">>
ExtPhoneSubmitted ==
  /\ h \in TA
  /\ Get(data, "phoneRaw") = Str(ExtPhone)
  /\ lead.submittedAt # <<>>

\* C14 as stated: phone normalization maps "(603) 555-1212 ext9" to
\* "6035551212".
C14_ExtensionDropped ==
  ExtPhoneSubmitted => lead.phone = <<"6", "0", "3", "5", "5", "5", "1", "2", "1", "2">>

\* C14 amended: phone normalization maps "(603) 555-1212 ext9" to
\* "60355512129": the digit of the extension is kept, since the eleven
\* digits are within the cap of 15.
C14_ExtensionDigitKept ==
  ExtPhoneSubmitted => lead.phone = <<"6", "0", "3", "5", "5", "5", "1", "2", "1", "2", "9">>

C14_Witness ==
  /\ ExtPhoneSubmitted
  /\ sendCalls = 1
  /\ sentLead.phone = <<"6", "0", "3", "5", "5", "5", "1", "2", "1", "2", "9">>

\* the request body that carries phone p as its raw phone
Resubmitted(p) == [t |-> "object", f |-> [NoFields EXCEPT !.phoneRaw = Str(p)]]

\* C15: phone normalization is idempotent: normalizing the phone of a
\* normalized Lead again (trim, strip non-digits, cut to 15) returns it
\* unchanged.
C15_PhoneIdempotent ==
  (h \in TA /\ lead.submittedAt # <<>>) => NormPhone(Resubmitted(lead.phone)) = lead.phone

C15_Witness ==
  /\ h \in TA
  /\ pc = "required"
  /\ Get(data, "phoneRaw").t = "string"
  /\ Len(lead.phone) = 15
  /\ Len(StripNonDigits(Get(data, "phoneRaw").s)) > 15
  /\ NormPhone(Resubmitted(lead.phone)) = lead.phone

HasDigit(v) == v.t = "string" /\ \E i \in 1..Len(v.s) : v.s[i] \in DigitChars
DigitsOf(v) == IF v.t = "string" THEN Slice0(StripNonDigits(v.s), 15) ELSE <<>>
RawPhone == Get(data, "phoneRaw")
PlainPhone == Get(data, "phone")
RawAbsentOrEmpty == RawPhone.t \in {"undefined", "null"} \/ RawPhone = Str(<<>>)
Normalized == h \in TA /\ lead.submittedAt # <<>>

\* C16 as stated: phoneRaw has precedence over phone; with phoneRaw absent or
\* empty the phone is the digits of phone; and a submission in which either
\* field holds a string with a digit is not rejected for a missing phone.
C16_EitherPhoneAccepted ==
  Normalized =>
    /\ (RawPhone.t = "string" /\ RawPhone.s # <<>> /\ PlainPhone.t # "undefined") =>
         lead.phone = DigitsOf(RawPhone)
    /\ RawAbsentOrEmpty => lead.phone = DigitsOf(PlainPhone)
    /\ (HasDigit(RawPhone) \/ HasDigit(PlainPhone)) => lead.phone # <<>>

\* C16 amended: phoneRaw has precedence over phone whenever it is truthy: the
\* phone is then the digits of phoneRaw only (none when phoneRaw is not a
\* string); with phoneRaw absent, empty or otherwise falsy it is the digits of
\* phone; the submission passes the phone check exactly when the field so
\* chosen holds a string with a digit, so a phoneRaw without digits hides a
\* valid phone.
C16_RawPhonePrecedence ==
  Normalized =>
    /\ Truthy(RawPhone) => lead.phone = DigitsOf(RawPhone)
    /\ ~Truthy(RawPhone) => lead.phone = DigitsOf(PlainPhone)
    /\ lead.phone # <<>> <=>
         HasDigit(IF Truthy(RawPhone) THEN RawPhone ELSE PlainPhone)

C16_Witness ==
  /\ Normalized
  /\ HasDigit(RawPhone)
  /\ HasDigit(PlainPhone)
  /\ DigitsOf(RawPhone) # DigitsOf(PlainPhone)
  /\ sentLead.phone = DigitsOf(RawPhone)
  /\ sendCalls = 1

VinIn == Get(data, "vin")
WithVin(v) == [t |-> "object", f |-> [NoFields EXCEPT !.vin = Str(v)]]
NoLowerCase(cs) == \A i \in 1..Len(cs) : \A j \in 1..Len(Lower) : cs[i] # Lower[j]
NoOuterSpace(cs) == cs # <<>> => (cs[1] # " " /\ cs[Len(cs)] # " ")

\* C17: for a string vin the normalized vin is the trimmed, upper-cased input
\* ("1hgcm82633a004352" gives "1HGCM82633A004352"), normalizing a normalized
\* vin returns it unchanged, and all revisions of the trade-appraisal handler
\* compute the same vin for the same input.
C17_VinCanonical ==
  (Normalized /\ VinIn.t = "string") =>
    /\ lead.vin = ToUpperCase(Trim(VinIn.s))
    /\ NoLowerCase(lead.vin) /\ NoOuterSpace(lead.vin)
    /\ NormVin(h, WithVin(lead.vin)) = lead.vin
    /\ \A hd \in TA : NormVin(hd, data) = lead.vin
    /\ VinIn.s = <<"1", "h", "g", "c", "m", "8", "2", "6", "3", "3", "a", "0", "0", "4", "3", "5", "2">> => lead.vin = <<"1", "H", "G", "C", "M", "8", "2", "6", "3", "3", "A", "0", "0", "4", "3", "5", "2">>

C17_Witness ==
  /\ h = "TA2"
  /\ VinIn = Str(<<"1", "h", "g", "c", "m", "8", "2", "6", "3", "3", "a", "0", "0", "4", "3", "5", "2">>)
  /\ sentLead.vin = <<"1", "H", "G", "C", "M", "8", "2", "6", "3", "3", "A", "0", "0", "4", "3", "5", "2">>
  /\ sendCalls = 1

(***************************************************************************)
(* Rendering claims                                                        *)
(***************************************************************************)
\* pat occurs in text
Occurs(pat, text) ==
  \E i \in 1..(Len(text) - Len(pat) + 1) :
    text[i] = pat[1] /\ SubSeq(text, i, i + Len(pat) - 1) = pat

\* where pat first occurs in text at or after position from
FirstAt(pat, text, from) ==
  CHOOSE i \in from..(Len(text) - Len(pat) + 1) :
    /\ SubSeq(text, i, i + Len(pat) - 1) = pat
    /\ \A j \in from..(i - 1) : SubSeq(text, j, j + Len(pat) - 1) # pat

OpenTag(f) == <<"<">> \o KeyChars[f] \o <<">">>
CloseTag(f) == <<"<", "/">> \o KeyChars[f] \o <<">">>

\* the text between the first <f> and the next </f>
Content(f, text) ==
  LET a == FirstAt(OpenTag(f), text, 1) + Len(OpenTag(f))
  IN SubSeq(text, a, FirstAt(CloseTag(f), text, a) - 1)

VehicleFields == {"year", "make", "model", "trim"}
AdfSent == h \in {"TA1", "TA3"} /\ sendCalls = 1

\* C18: in the ADF document of a delivered lead, for each of year, make,
\* model and trim the element <year>/<make>/<model>/<trim> occurs if and only
\* if the normalized field is non-empty, and then its content is the field's
\* value; no such tag occurs for an empty field.
C18_VehicleElementIffField ==
  AdfSent =>
    LET xml == msg.text
    IN \A f \in VehicleFields :
         /\ Occurs(OpenTag(f), xml) <=> sentLead[f] # <<>>
         /\ sentLead[f] # <<>> =>
              /\ Occurs(CloseTag(f), xml)
              /\ Content(f, xml) = sentLead[f]

\* markup that only submitted values carry: no template contains it
SubmittedMarkup == {<<"<", "s", "c", "r", "i", "p", "t", ">">>,
                    <<"<", "b", ">">>, <<"<", "i", ">">>, <<"<", "m", "a", "k", "e", ">">>}
ScriptName == <<"<", "s", "c", "r", "i", "p", "t", ">", "x", "<", "/", "s", "c", "r", "i", "p", "t", ">">>

\* the character at i starts one of &amp; &lt; &gt;
EntityAt(text, i) ==
  \/ SubSeq(text, i, i + 4) = <<"&", "a", "m", "p", ";">>
  \/ SubSeq(text, i, i + 3) \in {<<"&", "l", "t", ";">>, <<"&", "g", "t", ";">>}

\* C19: in the html of every e-mail that is sent, each &, < and > of a
\* submitted value or key appears as &amp;, &lt;, &gt;: no submitted markup
\* occurs as it was written, every & starts one of the three entities, and a
\* name of <script>x</script> appears as &lt;script&gt;x&lt;/script&gt;.
C19_HtmlEscaped ==
  sendCalls = 1 =>
    LET html == msg.html
    IN /\ \A m \in SubmittedMarkup : ~Occurs(m, html)
       /\ \A i \in 1..Len(html) : html[i] = "&" => EntityAt(html, i)
       /\ Get(data, "name") = Str(ScriptName) => Occurs(htmlEscape(ScriptName), html)

SubjectLabels == {<<"L", "e", "a", "d", ":", " ", "S", "i", "g", "h", "t", " ", "U", "n", "s", "e", "e", "n", " ", "T", "r", "a", "d", "e">>,
                  <<"N", "e", "w", " ", "T", "r", "a", "d", "e", "-", "I", "n", " ", "L", "e", "a", "d">>}
Dash == <<" ", "U+2014", " ">>
SubmittedOrEmpty(k) == String(JsOr(Get(data, k), Str(<<>>)))
SubjectName == IF h \in TA THEN sentLead.name ELSE SubmittedOrEmpty("name")
SubjectTokens ==
  IF h \in TA THEN <<sentLead.year, sentLead.make, sentLead.model>>
  ELSE <<SubmittedOrEmpty("year"), SubmittedOrEmpty("make"), SubmittedOrEmpty("model")>>
NoSpaceRun(cs) == \A i \in 1..(Len(cs) - 1) : ~(IsSpace(cs[i]) /\ IsSpace(cs[i + 1]))

\* C20: the subject of every e-mail that is sent is, up to the collapsing of
\* whitespace, "<label> -- <name> -- <year> <make> <model>" with the empty
\* tokens left out and the others in that order separated by single spaces;
\* it has no leading or trailing whitespace and no run of two or more
\* whitespace characters.
C20_SubjectForm ==
  sendCalls = 1 =>
    LET sent == msg.subject
    IN /\ \E label \in SubjectLabels :
            sent = Trim(CollapseSpaces(label \o Dash \o SubjectName \o Dash
                          \o Join(SelectSeq(SubjectTokens, NonEmpty), <<" ">>)))
       /\ NoOuterSpace(sent)
       /\ NoSpaceRun(sent)

(***************************************************************************)
(* Table rows                                                              *)
(***************************************************************************)
TableSent == h \in {"TA2", "SC2"} /\ sendCalls = 1
\* the object the table is built from, and its keys
TableKeys == IF h = "TA2" THEN MergedKeys(data, sentLead) ELSE DataKeys(data)
TableValue(k) == IF h = "TA2" THEN merged(data, sentLead)[k] ELSE Get(data, k)
SentRows == IF h = "TA2" THEN rows(data, sentLead) ELSE rows_part_001(data)
NonEmptyAfterTrim(v) ==
  v.t \notin {"undefined", "null"} /\ Trim(String(v)) # <<>>
PreferredKeys == {preferredOrder[i] : i \in 1..Len(preferredOrder)}
PreferredIndex(k) == CHOOSE i \in 1..Len(preferredOrder) : preferredOrder[i] = k

\* C21: in the table of every e-mail of the two table revisions the rows are
\* exactly the keys whose value is non-empty after trimming, each once: the
\* keys of the preferred list first, in the order of the list, then the
\* other keys in lexicographic order.
C21_RowsOrdered ==
  TableSent =>
    LET rs == SentRows
    IN /\ {rs[i][1] : i \in 1..Len(rs)} = {k \in TableKeys : NonEmptyAfterTrim(TableValue(k))}
       /\ \A i, j \in 1..Len(rs) : i < j =>
            /\ rs[i][1] # rs[j][1]
            /\ rs[j][1] \in PreferredKeys =>
                 /\ rs[i][1] \in PreferredKeys
                 /\ PreferredIndex(rs[i][1]) < PreferredIndex(rs[j][1])
            /\ rs[i][1] \notin PreferredKeys =>
                 KeyLess(KeyChars[rs[i][1]], KeyChars[rs[j][1]])
       /\ \A i \in 1..Len(rs) : Trim(rs[i][2]) # <<>>

C21_Witness ==
  /\ h = "SC2" /\ sendCalls = 1
  /\ Get(data, "botField") = Str(<<" ">>)
  /\ Get(data, "Zip") = Str(<<"0">>)
  /\ LET rs == rows_part_001(data)
     IN /\ Len(rs) = 8
        /\ rs[5][1] = "mileage" /\ rs[6][1] = "<i>" /\ rs[7][1] = "Zip"
        /\ rs[8][1] = "phoneRaw"

(***************************************************************************)
(* End to end                                                              *)
(***************************************************************************)
JaneDoePosted ==
  /\ h \in TA
  /\ event.httpMethod = "POST"
  /\ event.body = [kind |-> "json", t |-> "object", f |-> JaneDoe]

\* C22: for the Jane Doe submission posted to a trade-appraisal revision the
\* handler never throws and never answers anything but 200 {"ok":true} unless
\* the transport fails; the Lead has phone 5551234567 and vin
\* 1HGCM82633A004352, sg.send is called exactly once, with a subject that
\* contains "Jane Doe" and "2020 honda Civic", and the answer after a delivery
\* is 200 {"ok":true}.
C22_EndToEnd ==
  JaneDoePosted =>
    /\ outcome # "threw"
    /\ sendCalls <= 1
    /\ pc \in {"send", "await_send", "await_backup", "done"} =>
         /\ lead.phone = <<"5", "5", "5", "1", "2", "3", "4", "5", "6", "7">>
         /\ lead.vin = <<"1", "H", "G", "C", "M", "8", "2", "6", "3", "3", "A", "0", "0", "4", "3", "5", "2">>
    /\ sendCalls = 1 =>
         LET sent == msg.subject
         IN /\ sentLead = lead
            /\ Occurs(<<"J", "a", "n", "e", " ", "D", "o", "e">>, sent)
            /\ Occurs(<<"2", "0", "2", "0", " ", "h", "o", "n", "d", "a", " ", "C", "i", "v", "i", "c">>, sent)
    /\ outcome = "returned" =>
         /\ sendCalls = 1
         /\ mail = "resolved" => response = SuccessResponse(h)
         /\ mail = "rejected" => response = SendFailedResponse(h)

C22_Witness ==
  /\ JaneDoePosted /\ h = "TA2"
  /\ sendCalls = 1 /\ mail = "resolved"
  /\ sentLead.phone = <<"5", "5", "5", "1", "2", "3", "4", "5", "6", "7">>
  /\ response = Resp("TA2", 200, OkTrue)
  /\ msg.subject = <<"N", "e", "w", " ", "T", "r", "a", "d", "e", "-", "I", "n", " ", "L", "e", "a", "d", " ", "U+2014", " ", "J", "a", "n", "e", " ", "D", "o", "e", " ", "U+2014", " ", "2", "0", "2", "0", " ", "h", "o", "n", "d", "a", " ", "C", "i", "v", "i", "c">>

(***************************************************************************)
(* Attachments of the submission-created handlers                          *)
(***************************************************************************)

\* the number of distinct uploaded files in the longest submission
MaxFiles == 7

FileNames == <<"1", "2", "3", "4", "5", "6", "7", "8", "9">>
Url(i) == Str(<<"h", "t", "t", "p", ":", "/", "/">> \o <<FileNames[i]>>)

\* a submission of MaxFiles files, and one with a repeated URL, URLs that are
\* not http(s), a file without url, and an upper-case scheme
ManyFiles == [i \in 1..MaxFiles |-> Url(i)]
MixedFiles ==
  <<Url(1), Url(1), Str(<<"f", "t", "p", ":", "/", "/", "a">>), Undef, Str(<<>>), Str(<<"H", "T", "T", "P", "S", ":", "/", "/", "B">>), Num(<<"5">>), Url(2)>>

AttachObjects ==
  {[JaneDoe EXCEPT !.photoExterior = p] : p \in {Undef, Url(1), EmptyArray}}

AttachEvents ==
  {[httpMethod |-> "POST", body |-> [kind |-> "json", t |-> "object", f |-> JaneDoe],
    files |-> ManyFiles]}
    \cup {[httpMethod |-> "POST", body |-> [kind |-> "json", t |-> "object", f |-> o],
           files |-> MixedFiles] : o \in AttachObjects}

\* a deployment with the webhook configured
AttachInit == Init /\ env = [SHEETS_WEBHOOK_URL |-> Str(<<"u">>), SHEETS_SHARED_SECRET |-> Undef]

AttachNext ==
  \/ \E hd \in SC : \E ev \in AttachEvents : Receive(hd, ev)
  \/ ParseBody
  \/ Honeypot
  \/ GatherFiles
  \/ LoopHead
  \/ \E r \in FetchResults : FetchSettles(r)
  \/ AfterFetch
  \/ Send
  \/ \E r \in {"resolved", "rejected"} : SendSettles(r)
  \/ AfterSend
  \/ \E r \in {"resolved", "rejected", "hung"} : BackupSettles(r)
  \/ AfterBackup

AttachSpec == AttachInit /\ [][AttachNext]_vars

\* the sum of the sizes of a list of attachments
TotalSize(as) ==
  LET F[i \in 0..Len(as)] == IF i = 0 THEN 0 ELSE F[i - 1] + as[i].size
  IN F[Len(as)]

\* the URLs the handler may fetch: distinct, and each http(s)
FetchableUrls ==
  /\ \A i \in 1..Len(fileUrls) : IsHttpUrl(fileUrls[i])
  /\ \A i, j \in 1..Len(fileUrls) : fileUrls[i] = fileUrls[j] => i = j

\* the limits on the attachments gathered so far, hence on those of the e-mail
WithinLimits ==
  /\ Len(attachments) <= 6
  /\ \A i \in 1..Len(attachments) : attachments[i].size <= 5 * 1024 * 1024
  /\ TotalSize(attachments) <= 15 * 1024 * 1024
  /\ \A i \in 1..Len(attachments) :
       /\ attachments[i].number \in 1..Len(fileUrls)
       /\ attachments[i].url = fileUrls[attachments[i].number]
  /\ \A i, j \in 1..Len(attachments) :
       attachments[i].number = attachments[j].number => i = j

\* the fetch that has settled failed, or its body is over a limit
FailedOrOversized ==
  \/ fetch.state = "rejected"
  \/ ~fetch.ok
  \/ fetch.size > 5 * 1024 * 1024
  \/ TotalSize(attachments) + fetch.size > 15 * 1024 * 1024

\* one step of the attachment loop: a fetch is made only for a listed URL,
\* a failed or oversized fetch leaves the attachments as they were, and the
\* handler goes on, to the next file or to sg.send, without returning
LoopStep ==
  /\ (pc = "loop" /\ pc' # "loop") =>
       /\ pc' \in {"await_fetch", "send"}
       /\ pc' = "await_fetch" => ix + 1 \in 1..Len(fileUrls)
       /\ outcome' = "running"
  /\ (pc = "await_fetch" /\ pc' # "await_fetch") =>
       /\ pc' = "loop"
       /\ outcome' = "running"
       /\ FailedOrOversized => attachments' = attachments
  /\ (pc = "send" /\ pc' # "send") => sendCalls' = sendCalls + 1

\* C27: in the submission-created handlers, at every moment and so in every
\* e-mail sent, there are at most 6 attachments, each of at most 5 MiB and
\* together of at most 15 MiB, each read from a different listed URL; the
\* listed URLs are distinct and http(s); a failed or oversized fetch skips
\* its file and the handler goes on to send the e-mail
C27_AttachmentLimits ==
  /\ [](h \in SC => (pc \notin {"idle", "parse", "honeypot", "files"} => FetchableUrls)
                     /\ WithinLimits
                     /\ (pc \in {"files", "loop", "await_fetch", "send"} => outcome = "running"))
  /\ [][(h \in SC) => LoopStep]_vars

\* an e-mail went out with six attachments of 14 MiB in all while a seventh
\* file was left unfetched
C27_Witness ==
  /\ h \in SC
  /\ sendCalls = 1
  /\ Len(attachments) = 6
  /\ ix < Len(fileUrls)
  /\ TotalSize(attachments) = 14 * 1024 * 1024

(***************************************************************************)
(* Two invocations in one process                                          *)
(***************************************************************************)

\* the locals of the invocation that is running
Locals ==
  [h |-> h, event |-> event, pc |-> pc, data |-> data, lead |-> lead,
   mail |-> mail, backup |-> backup, backupUrl |-> backupUrl, sendCalls |-> sendCalls,
   backupCalls |-> backupCalls, parseCalls |-> parseCalls, sentLead |-> sentLead,
   fileUrls |-> fileUrls, attachments |-> attachments, total |-> total, ix |-> ix,
   fetch |-> fetch, response |-> response, outcome |-> outcome]

\* where the event loop can leave an invocation: before it begins, at an
\* await whose promise is pending or settled, or after it has ended
Suspended == pc \in {"idle", "await_send", "await_fetch", "await_backup", "done"}

Switch_SharedTotal ==
  /\ Suspended
  /\ other' = Locals
  /\ h' = other.h
  /\ event' = other.event
  /\ pc' = other.pc
  /\ data' = other.data
  /\ lead' = other.lead
  /\ mail' = other.mail
  /\ backup' = other.backup
  /\ backupUrl' = other.backupUrl
  /\ sendCalls' = other.sendCalls
  /\ backupCalls' = other.backupCalls
  /\ parseCalls' = other.parseCalls
  /\ sentLead' = other.sentLead
  /\ fileUrls' = other.fileUrls
  /\ attachments' = other.attachments
  /\ total' = total
  /\ ix' = other.ix
  /\ fetch' = other.fetch
  /\ response' = other.response
  /\ outcome' = other.outcome
  /\ UNCHANGED <<env, client>>
\* the event loop turns to the other invocation. Every variable of a handler
\* is declared inside the handler function (attachments and total included),
\* so each invocation has its own; the module scope holds only the sg client
Switch ==
  /\ Suspended
  /\ other' = Locals
  /\ h' = other.h
  /\ event' = other.event
  /\ pc' = other.pc
  /\ data' = other.data
  /\ lead' = other.lead
  /\ mail' = other.mail
  /\ backup' = other.backup
  /\ backupUrl' = other.backupUrl
  /\ sendCalls' = other.sendCalls
  /\ backupCalls' = other.backupCalls
  /\ parseCalls' = other.parseCalls
  /\ sentLead' = other.sentLead
  /\ fileUrls' = other.fileUrls
  /\ attachments' = other.attachments
  /\ total' = other.total
  /\ ix' = other.ix
  /\ fetch' = other.fetch
  /\ response' = other.response
  /\ outcome' = other.outcome
  /\ UNCHANGED <<env, client>>

\* two requests: a trade-appraisal lead, and a form submission with files
TwoFiles == <<Url(1), Url(2)>>
ConcEvents(hd) ==
  IF hd \in TA
  THEN {[httpMethod |-> "POST", body |-> [kind |-> "json", t |-> "object", f |-> o],
         files |-> <<>>] : o \in {JaneDoe, [JaneDoe EXCEPT !.name = Undef]}}
  ELSE {[httpMethod |-> "POST", body |-> [kind |-> "json", t |-> "object", f |-> JaneDoe],
         files |-> fs] : fs \in {<<Url(1)>>, TwoFiles}}

ConcHandlers == {"TA1", "SC1"}

ConcNext ==
  \/ \E hd \in ConcHandlers : \E ev \in ConcEvents(hd) : Receive(hd, ev)
  \/ Switch
  \/ MethodGate
  \/ ParseBody
  \/ Honeypot
  \/ GatherFiles
  \/ LoopHead
  \/ \E r \in FetchResults : FetchSettles(r)
  \/ AfterFetch
  \/ Normalize
  \/ Required
  \/ Send
  \/ \E r \in {"resolved", "rejected"} : SendSettles(r)
  \/ AfterSend
  \/ \E r \in {"resolved", "rejected", "hung"} : BackupSettles(r)
  \/ AfterBackup

ConcSpec == AttachInit /\ [][ConcNext]_vars

\* the response invocation L gives when it is handled alone with the e-mail
\* outcome it met: 400 for a lead without a name, 502 when sg.send failed,
\* 200 otherwise
AloneResponse(L) ==
  IF L.h \in TA /\ ~Truthy(Get([t |-> "object", f |-> L.event.body.f], "name"))
  THEN MissingResponse(L.h)
  ELSE IF L.mail = "rejected" THEN SendFailedResponse(L.h)
  ELSE SuccessResponse(L.h)

\* every local of invocation L is what L's own event and the outcomes of L's
\* own fetches and send make it: the parsed body, the lead, the file URLs,
\* the attachments (each read from one of L's URLs, in order), the running
\* total, the lead the e-mail was rendered from, and the response
OwnState(L) ==
  /\ L.pc \notin {"idle", "gate", "parse"} =>
       LET r == JsonParse(L.event.body) IN L.data = [t |-> r.t, f |-> r.f]
  /\ L.pc \in {"required", "send", "await_send", "await_backup"} =>
       L.lead = (IF L.h \in TA THEN BuildLead(L.h, L.data) ELSE NoLead)
  /\ L.sendCalls = 1 => L.sentLead = (IF L.h \in TA THEN BuildLead(L.h, L.data) ELSE NoLead)
  /\ L.sendCalls = 0 => L.mail = "none" /\ L.backupCalls = 0
  /\ (L.h \in SC /\ L.pc \notin {"idle", "parse", "honeypot", "files"}) =>
       L.fileUrls = FileUrls(L.h, L.event, L.data)
  /\ L.h \in TA => L.attachments = <<>> /\ L.total = 0
  /\ L.total = TotalSize(L.attachments)
  /\ Len(L.attachments) <= L.ix
  /\ \A i \in 1..Len(L.attachments) :
       /\ L.attachments[i].number \in 1..L.ix
       /\ L.attachments[i].url = L.fileUrls[L.attachments[i].number]
       /\ \A j \in 1..(i - 1) : L.attachments[j].number < L.attachments[i].number
  /\ L.outcome = "returned" => L.response = AloneResponse(L)

\* C23: with two invocations interleaved at their awaits (attachment
\* fetches, e-mail send, backup call) in any order, each invocation's parsed
\* body, lead, file URLs, attachments, running total, e-mail and response
\* are those its own event and its own transport outcomes give when it is
\* handled alone; a step of one invocation changes nothing of the other
C23_Independent ==
  /\ [](OwnState(Locals) /\ OwnState(other))
  /\ [][other' # other => (other' = Locals /\ Locals' = other)]_vars

\* two form submissions are both in the middle of their attachment loops,
\* with different running totals
C23_Witness ==
  /\ h = "SC1" /\ other.h = "SC1"
  /\ pc = "await_fetch" /\ other.pc = "await_fetch"
  /\ Len(attachments) = 1 /\ Len(other.attachments) = 1
  /\ total # other.total

(***************************************************************************)
(* The form page: the year select                                          *)
(***************************************************************************)

\* the years a select may list run from FirstYear to FirstYear + YearSpan - 1
FirstYear == 8
YearSpan == 5
YearRange == FirstYear..(FirstYear + YearSpan - 1)

DecimalDigits == <<"0", "1", "2", "3", "4", "5", "6", "7", "8", "9">>

\* String(n) of a non-negative integer
RECURSIVE NumberText(_)
NumberText(n) ==
  IF n < 10 THEN <<DecimalDigits[n + 1]>>
  ELSE NumberText(n \div 10) \o <<DecimalDigits[(n % 10) + 1]>>

DigitValue(c) == (CHOOSE i \in 1..10 : DecimalDigits[i] = c) - 1

\* Number(s) of a string: 0 for the empty or blank string, the value of a
\* decimal numeral, NaN for the other strings that are modelled
NaN == -1
ToNumber(cs) ==
  LET t == Trim(cs)
      F[i \in 0..Len(t)] == IF i = 0 THEN 0 ELSE 10 * F[i - 1] + DigitValue(t[i])
  IN IF t = <<>> THEN 0
     ELSE IF \A i \in 1..Len(t) : t[i] \in DigitChars THEN F[Len(t)]
     ELSE NaN

\* the position of the first option with value y, 0 if there is none
OptionIndex(options, y) ==
  IF \E i \in 1..Len(options) : options[i] = y
  THEN CHOOSE i \in 1..Len(options) :
         options[i] = y /\ \A j \in 1..(i - 1) : options[j] # y
  ELSE 0

\* the position setYearSelectValue inserts a missing year before: the first
\* option i with !Number.isNaN(n) && asNum > n; 0 when it appends
InsertBefore(options, asNum) ==
  LET Fits(i) == ToNumber(options[i]) # NaN /\ asNum # NaN /\ asNum > ToNumber(options[i])
  IN IF \E i \in 1..Len(options) : Fits(i)
     THEN CHOOSE i \in 1..Len(options) : Fits(i) /\ \A j \in 1..(i - 1) : ~Fits(j)
     ELSE 0

InsertAt(options, i, y) ==
  IF i = 0 THEN Append(options, y)
  ELSE SubSeq(options, 1, i - 1) \o <<y>> \o SubSeq(options, i, Len(options))

\* setYearSelectValue(selectEl, year): the options and the value of the
\* select afterwards, and what the call returns
setYearSelectValue(options, value, year) ==
  IF ~Truthy(year) \/ Trim(String(year)) = <<>>
  THEN [options |-> options, value |-> value, ret |-> "false"]
  ELSE LET y == Trim(String(year))
       IN [options |-> IF OptionIndex(options, y) # 0 THEN options
                       ELSE InsertAt(options, InsertBefore(options, ToNumber(y)), y),
           value |-> y,
           ret |-> "true"]

\* year lists in descending order, with or without a placeholder in front
RECURSIVE Descending(_)
Descending(S) ==
  IF S = {} THEN <<>>
  ELSE LET m == CHOOSE x \in S : \A z \in S : z <= x
       IN <<NumberText(m)>> \o Descending(S \ {m})
YearLists ==
  {p \o Descending(S) : p \in {<<>>, <<<<>>>>}, S \in SUBSET YearRange}

\* the years given to setYearSelectValue: numbers and strings, padded or not,
\* a value that is no number, and the values the function refuses
YearArguments ==
  {Num(NumberText(n)) : n \in YearRange}
    \cup {Str(NumberText(n)) : n \in YearRange}
    \cup {Str(<<" ">> \o NumberText(FirstYear + 1) \o <<" ">>), Str(<<"x">>),
          Str(<<" ">>), Str(<<>>), Undef, Null}

\* a page whose year select holds one of the lists, its first option selected
YearInit ==
  /\ ServerInit
  /\ env = [SHEETS_WEBHOOK_URL |-> Undef, SHEETS_SHARED_SECRET |-> Undef]
  /\ client \in {[page |-> "year", before |-> o, options |-> o,
                  value |-> IF o = <<>> THEN <<>> ELSE o[1],
                  year |-> y, ret |-> "none"] : o \in YearLists, y \in YearArguments}

SetYear ==
  /\ client.page = "year"
  /\ client.ret = "none"
  /\ LET r == setYearSelectValue(client.options, client.value, client.year)
     IN client' = [client EXCEPT !.options = r.options, !.value = r.value, !.ret = r.ret]
  /\ UNCHANGED serverVars

YearNext == SetYear

YearSpec == YearInit /\ [][YearNext]_vars

\* the options other than a placeholder with empty value
NumericOptions(options) == SelectSeq(options, LAMBDA v : v # <<>>)
IsDescending(options) ==
  \A i, j \in 1..Len(options) : i < j => ToNumber(options[i]) > ToNumber(options[j])
Count(options, y) == Cardinality({i \in 1..Len(options) : options[i] = y})

\* C26: after setYearSelectValue(select, y) on a select whose years are in
\* descending order, with or without a placeholder in front, the year is
\* present once and selected, the earlier options are all still present, the
\* years are still in descending order and the placeholder is still first
C26_YearOrderKept ==
  (client.page = "year" /\ client.ret = "true" /\ ToNumber(client.value) # NaN) =>
    /\ Count(client.options, client.value) = 1
    /\ \A i \in 1..Len(client.before) : Count(client.options, client.before[i]) = 1
    /\ Len(client.options) <= Len(client.before) + 1
    /\ IsDescending(NumericOptions(client.options))
    /\ (client.before # <<>> /\ client.before[1] = <<>>) => client.options[1] = <<>>

(***************************************************************************)
(* The form page: the model loader and the VIN decoder                     *)
(***************************************************************************)

\* user changes of the make select, and clicks of the decode button
MaxChanges == 1
MaxDecodes == 2

Makes == {"Honda", "Yugo"}
ModelYear == "2020"

\* the models VPIC lists for a make and year, sorted; none for an unknown make
VpicModels(make) ==
  CASE make = "Honda" -> <<<<"A", "c", "c", "o", "r", "d">>, <<"C", "i", "v", "i", "c">>>>
    [] make = "Ford" -> <<<<"E", "d", "g", "e">>>>
    [] OTHER -> <<>>

\* the VINs that are decoded, and the rows VPIC answers with
Vins == {"V1", "V2"}
VpicRow(vin) ==
  IF vin = "V1" THEN [Make |-> "Honda", Model |-> <<"C", "I", "V", "I", "C">>]
  ELSE [Make |-> "Ford", Model |-> <<"F", "i", "e", "s", "t", "a">>]

\* how a fetch through fetchWithTimeout can end: with a response that is ok,
\* with an error (a response that is not ok, a network failure), or with an
\* AbortError. fetchWithTimeout passes { ...rest, signal: controller.signal },
\* so the signal the caller gave is replaced by that of the timeout: the
\* caller's abort() does not reach the request and has no effect on it
fetchWithTimeout == {"ok", "error", "abort"}

\* <option value="">Select Model</option>
Placeholder == [value |-> <<>>, from |-> 0]

\* an option of the model select: its value, and the call that appended it
\* (a load i > 0, a decode d as -d)
ModelOption(v, who) == [value |-> v, from |-> who]

\* the option setSelectValueCaseInsensitive finds: the first one whose value
\* is the target in lower case; 0 if there is none
FindOption(options, target) ==
  LET Hit(i) == ToLowerCase(options[i].value) = ToLowerCase(target)
  IN IF \E i \in 1..Len(options) : Hit(i)
     THEN CHOOSE i \in 1..Len(options) : Hit(i) /\ \A j \in 1..(i - 1) : ~Hit(j)
     ELSE 0

setSelectValueCaseInsensitive_NoAdd(options, value, target, who) ==
  IF Trim(target) = <<>> THEN [options |-> options, value |-> value]
  ELSE LET t == Trim(target)
           i == FindOption(options, t)
       IN IF i # 0 THEN [options |-> options, value |-> options[i].value]
          ELSE [options |-> options, value |-> <<>>]
\* setSelectValueCaseInsensitive(selectEl, value): the options and the value
\* of the select afterwards; a missing option is appended
setSelectValueCaseInsensitive(options, value, target, who) ==
  IF Trim(target) = <<>> THEN [options |-> options, value |-> value]
  ELSE LET t == Trim(target)
           i == FindOption(options, t)
       IN IF i # 0 THEN [options |-> options, value |-> options[i].value]
          ELSE [options |-> Append(options, ModelOption(t, who)), value |-> t]

\* the page as loaded: no make chosen, the model select reset, nothing in flight
FormPage ==
  [page |-> "form", make |-> "", year |-> ModelYear,
   options |-> <<Placeholder>>, value |-> <<>>, disabled |-> TRUE,
   modelsAborter |-> 0, vinAborter |-> 0, lastDecodedVin |-> "",
   loads |-> <<>>, decodes |-> <<>>, changes |-> 0]

LoaderInit ==
  /\ ServerInit
  /\ env = [SHEETS_WEBHOOK_URL |-> Undef, SHEETS_SHARED_SECRET |-> Undef]
  /\ client = FormPage

\* loadModels() up to its first await, called by decode d (0: by a change
\* event) on page c: resetModels(true); without make or year it returns;
\* else it aborts the previous controller (which the request does not hear,
\* see fetchWithTimeout), makes a new one and fetches
loadModels(c, d) ==
  LET reset == [c EXCEPT !.options = <<Placeholder>>, !.value = <<>>, !.disabled = TRUE]
      id == Len(c.loads) + 1
  IN IF c.make = "" \/ c.year = "" THEN reset
     ELSE [reset EXCEPT
             !.modelsAborter = id,
             !.loads = Append(c.loads,
                              [make |-> c.make, year |-> c.year, state |-> "fetching",
                               result |-> "none", by |-> d])]

\* the user picks a make: the change listener calls loadModels
UserChange(m) ==
  /\ client.page = "form"
  /\ client.changes < MaxChanges
  /\ client' = loadModels([client EXCEPT !.make = m, !.changes = @ + 1], 0)
  /\ UNCHANGED serverVars

\* the request of load i ends
LoadResponds(i, r) ==
  /\ client.page = "form"
  /\ i \in 1..Len(client.loads)
  /\ client.loads[i].state = "fetching"
  /\ r \in fetchWithTimeout
  /\ client' = [client EXCEPT !.loads[i].state = "responded", !.loads[i].result = r]
  /\ UNCHANGED serverVars

\* loadModels after its awaits: the models are appended (none: reset), an
\* AbortError returns, another error resets; finally modelsAborter = null
LoadResumes(i) ==
  /\ client.page = "form"
  /\ i \in 1..Len(client.loads)
  /\ client.loads[i].state = "responded"
  /\ LET L == client.loads[i]
         models == VpicModels(L.make)
         c == [client EXCEPT !.loads[i].state = "done", !.loads[i].result = "none",
                             !.modelsAborter = 0]
     IN client' =
          IF L.result = "abort" THEN c
          ELSE IF L.result = "error" \/ models = <<>>
          THEN [c EXCEPT !.options = <<Placeholder>>, !.value = <<>>, !.disabled = TRUE]
          ELSE [c EXCEPT
                  !.options = @ \o [k \in 1..Len(models) |-> ModelOption(models[k], i)],
                  !.disabled = FALSE]
  /\ UNCHANGED serverVars

\* decodeVin(vin) up to its first await; a VIN that was decoded last returns
DecodeClick(vin) ==
  /\ client.page = "form"
  /\ Len(client.decodes) < MaxDecodes
  /\ client' =
       IF vin = client.lastDecodedVin
       THEN [client EXCEPT
               !.decodes = Append(@, [vin |-> vin, state |-> "done", result |-> "none",
                                      load |-> 0, outcome |-> "skipped"])]
       ELSE [client EXCEPT
               !.vinAborter = Len(client.decodes) + 1,
               !.decodes = Append(@, [vin |-> vin, state |-> "fetching", result |-> "none",
                                      load |-> 0, outcome |-> "none"])]
  /\ UNCHANGED serverVars

\* the request of decode d ends
DecodeResponds(d, r) ==
  /\ client.page = "form"
  /\ d \in 1..Len(client.decodes)
  /\ client.decodes[d].state = "fetching"
  /\ r \in fetchWithTimeout
  /\ client' = [client EXCEPT !.decodes[d].state = "responded", !.decodes[d].result = r]
  /\ UNCHANGED serverVars

\* decodeVin after the fetch: an error ends the call (finally vinAborter =
\* null); else the make is set and loadModels() is called and awaited
DecodeResumes(d) ==
  /\ client.page = "form"
  /\ d \in 1..Len(client.decodes)
  /\ client.decodes[d].state = "responded"
  /\ LET D == client.decodes[d]
     IN client' =
          IF D.result # "ok"
          THEN [client EXCEPT !.decodes[d].state = "done", !.decodes[d].outcome = "failed",
                              !.decodes[d].result = "none", !.vinAborter = 0]
          ELSE LET c == loadModels([client EXCEPT !.make = VpicRow(D.vin).Make], d)
               IN [c EXCEPT !.decodes[d].state = "loading", !.decodes[d].result = "none",
                            !.decodes[d].load = IF Len(c.loads) > Len(client.loads)
                                                THEN Len(c.loads) ELSE 0]
  /\ UNCHANGED serverVars

\* decodeVin once loadModels() has resolved: the model is set, then
\* lastDecodedVin = vin; finally vinAborter = null
DecodeFinishes(d) ==
  /\ client.page = "form"
  /\ d \in 1..Len(client.decodes)
  /\ client.decodes[d].state = "loading"
  /\ client.decodes[d].load # 0 => client.loads[client.decodes[d].load].state = "done"
  /\ LET D == client.decodes[d]
         r == setSelectValueCaseInsensitive(client.options, client.value,
                                            VpicRow(D.vin).Model, 0 - d)
     IN client' = [client EXCEPT !.options = r.options, !.value = r.value,
                                 !.lastDecodedVin = D.vin, !.vinAborter = 0,
                                 !.decodes[d].state = "done",
                                 !.decodes[d].outcome = "success"]
  /\ UNCHANGED serverVars

LoaderNext ==
  \/ \E m \in Makes : UserChange(m)
  \/ \E i \in 1..(MaxChanges + MaxDecodes) : \E r \in {"ok", "error", "abort"} : LoadResponds(i, r)
  \/ \E i \in 1..(MaxChanges + MaxDecodes) : LoadResumes(i)
  \/ \E v \in Vins : DecodeClick(v)
  \/ \E d \in 1..MaxDecodes : \E r \in {"ok", "error", "abort"} : DecodeResponds(d, r)
  \/ \E d \in 1..MaxDecodes : DecodeResumes(d)
  \/ \E d \in 1..MaxDecodes : DecodeFinishes(d)

LoaderSpec == LoaderInit /\ [][LoaderNext]_vars

\* nothing is in flight: every load and every decode has run to its end
AllSettled ==
  /\ \A i \in 1..Len(client.loads) : client.loads[i].state = "done"
  /\ \A d \in 1..Len(client.decodes) : client.decodes[d].state = "done"

\* the options that loads appended
LoadedOptions == SelectSeq(client.options, LAMBDA o : o.from > 0)

\* C24: the model select never holds models of a load that a later load has
\* replaced, and once all loads have settled it holds the placeholder and the
\* models of the most recent load only (none when that load failed), each once
C24_OnlyLatestLoad ==
  client.page = "form" =>
    /\ client.options[1] = Placeholder
    /\ \A k \in 1..Len(client.options) :
         client.options[k].from > 0 => client.options[k].from = Len(client.loads)
    /\ (AllSettled /\ client.loads # <<>>) =>
         LET last == client.loads[Len(client.loads)]
         IN LoadedOptions \in {<<>>, [k \in 1..Len(VpicModels(last.make)) |->
                                       ModelOption(VpicModels(last.make)[k], Len(client.loads))]}

\* the decodes that end in this step with success
Succeeds(d) ==
  /\ d \in 1..Len(client.decodes)
  /\ client.decodes[d].state = "loading"
  /\ client'.decodes[d].state = "done"
  /\ client'.decodes[d].outcome = "success"

Wait == 2
MaxTime == 6
MaxInputs == 3

\* validVin(v): /^[A-HJ-NPR-Z0-9]{17}$/ on the trimmed, upper-cased text
VinLetters ==
  {"A", "B", "C", "D", "E", "F", "G", "H", "J", "K", "L", "M", "N", "P", "R",
   "S", "T", "U", "V", "W", "X", "Y", "Z"}
validVin(cs) ==
  LET s == ToUpperCase(Trim(cs))
  IN /\ cs # <<>>
     /\ Len(s) = 17
     /\ \A i \in 1..17 : s[i] \in VinLetters \cup DigitChars

\* what the user may have typed: a VIN, the same in lower case with blanks
\* around it, a VIN cut short, one with a letter too many, one with the
\* letter I, and nothing
TypedVins ==
  {<<"1", "H", "G", "C", "M", "8", "2", "6", "3", "3", "A", "0", "0", "4", "3", "5", "2">>, <<" ">> \o <<"1", "h", "g", "c", "m", "8", "2", "6", "3", "3", "a", "0", "0", "4", "3", "5", "2">> \o <<" ">>, <<"1", "H", "G", "C", "M", "8", "2", "6", "3", "3", "A", "0", "0", "4", "3", "5">>, <<"1", "H", "G", "C", "M", "8", "2", "6", "3", "3", "A", "0", "0", "4", "3", "5", "2", "1">>, <<"1", "H", "G", "C", "M", "8", "2", "6", "3", "3", "I", "0", "0", "4", "3", "5", "2">>, <<>>}

\* the page as loaded: the input empty, no timer
VinPage ==
  [page |-> "vin", now |-> 0, value |-> <<>>, t |-> 0, timers |-> {}, made |-> 0, log |-> <<>>]

DebounceInit ==
  /\ ServerInit
  /\ env = [SHEETS_WEBHOOK_URL |-> Undef, SHEETS_SHARED_SECRET |-> Undef]
  /\ client = VinPage

debounce_NoClear(c, arg) ==
  LET id == c.made + 1
  IN [c EXCEPT !.timers = @ \cup {[id |-> id, due |-> c.now + Wait, arg |-> arg]},
               !.t = id, !.made = id]
\* a call of the function debounce returns: clearTimeout(t);
\* t = setTimeout(() => fn(...args), wait)
debounce(c, arg) ==
  LET id == c.made + 1
  IN [c EXCEPT !.timers = {x \in @ : x.id # c.t}
                            \cup {[id |-> id, due |-> c.now + Wait, arg |-> arg]},
               !.t = id, !.made = id]

Inputs == Cardinality({k \in 1..Len(client.log) : client.log[k].kind = "input"})

\* the user edits the VIN input: the input event calls the debounced listener,
\* with the event (here its number) as argument
TypeVin(v) ==
  /\ client.page = "vin"
  /\ Inputs < MaxInputs
  /\ client' = debounce([client EXCEPT
                           !.value = v,
                           !.log = Append(@, [kind |-> "input", at |-> client.now,
                                              arg |-> Inputs + 1, value |-> v,
                                              decode |-> FALSE])],
                        Inputs + 1)
  /\ UNCHANGED serverVars

\* time passes
Tick ==
  /\ client.page = "vin"
  /\ client.now < MaxTime
  /\ client' = [client EXCEPT !.now = @ + 1]
  /\ UNCHANGED serverVars

\* a timer that is due runs its callback, at its time or later: fn(...args),
\* which here reads vinInput.value and calls decodeVin(v) if validVin(v)
TimerFires(id) ==
  /\ client.page = "vin"
  /\ \E x \in client.timers :
       /\ x.id = id
       /\ client.now >= x.due
       /\ client' = [client EXCEPT
                       !.timers = @ \ {x},
                       !.log = Append(@, [kind |-> "run", at |-> client.now, arg |-> x.arg,
                                          value |-> client.value,
                                          decode |-> validVin(client.value)])]
  /\ UNCHANGED serverVars

DebounceNext ==
  \/ \E v \in TypedVins : TypeVin(v)
  \/ Tick
  \/ \E id \in 1..MaxInputs : TimerFires(id)

DebounceSpec == DebounceInit /\ [][DebounceNext]_vars

\* the last input event before position p of the log; 0 if there is none
LastInput(p) ==
  IF \E q \in 1..(p - 1) : client.log[q].kind = "input"
  THEN CHOOSE q \in 1..(p - 1) :
         /\ client.log[q].kind = "input"
         /\ \A r \in (q + 1)..(p - 1) : client.log[r].kind # "input"
  ELSE 0

\* C30: every run of the debounced function comes after an input event, at
\* least Wait after the last one, is the only run since that event, and gets
\* that event's arguments; the VIN listener so starts a decode only for the
\* value typed last, and only if that value is a valid 17-character VIN
C30_Debounced ==
  client.page = "vin" =>
    \A p \in 1..Len(client.log) :
      client.log[p].kind = "run" =>
        LET q == LastInput(p)
        IN /\ q # 0
           /\ client.log[p].at >= client.log[q].at + Wait
           /\ \A r \in (q + 1)..(p - 1) : client.log[r].kind # "run"
           /\ client.log[p].arg = client.log[q].arg
           /\ client.log[p].value = client.log[q].value
           /\ client.log[p].decode <=> validVin(client.log[q].value)

\* three quick edits, the last leaving a valid VIN in lower case, then one
\* run of the listener, which starts the decode
C30_Witness ==
  /\ client.page = "vin"
  /\ Len(client.log) = 4
  /\ \A k \in 1..3 : client.log[k].kind = "input" /\ client.log[k].at = 0
  /\ ~validVin(client.log[2].value)
  /\ client.log[4].kind = "run"
  /\ client.log[4].decode
  /\ client.log[4].value = <<" ">> \o <<"1", "h", "g", "c", "m", "8", "2", "6", "3", "3", "a", "0", "0", "4", "3", "5", "2">> \o <<" ">>
  /\ client.timers = {}

\* how often pat occurs in text
CountOf(pat, text) ==
  Cardinality({i \in 1..(Len(text) - Len(pat) + 1) :
                 text[i] = pat[1] /\ SubSeq(text, i, i + Len(pat) - 1) = pat})

\* the elements of the ADF document that occur once, by their start tags
AdfElements ==
  {<<"<", "p", "r", "o", "s", "p", "e", "c", "t", " ">>, <<"<", "v", "e", "h", "i", "c", "l", "e", " ">>, <<"<", "c", "u", "s", "t", "o", "m", "e", "r", ">">>, <<"<", "v", "e", "n", "d", "o", "r", ">">>, <<"<", "p", "r", "o", "v", "i", "d", "e", "r", ">">>, <<"<", "c", "o", "m", "m", "e", "n", "t", "s", ">">>}

\* the lead with every <, > and & of its values replaced by a letter
PlainLead(l) ==
  [f \in DOMAIN l |->
     [i \in 1..Len(l[f]) |-> IF l[f][i] \in {"<", ">", "&"} THEN "x" ELSE l[f][i]]]

AdfDocument(hd, l) == IF hd = "TA1" THEN adfXml(l) ELSE adfXml_part_000(l)

\* C28: in the ADF document of a delivered lead each of <prospect>,
\* <vehicle>, <customer>, <vendor>, <provider> and <comments> occurs once, and
\* the submitted values add no markup: the document has as many <, > and &
\* as the document of the same lead with those characters taken out of the
\* values, whatever characters the values contain
C28_StructureFixed ==
  AdfSent =>
    LET xml == msg.text
        plain == AdfDocument(h, PlainLead(sentLead))
    IN /\ \A e \in AdfElements : CountOf(e, xml) = 1
       /\ \A c \in {"<", ">", "&"} : CountOf(<<c>>, xml) = CountOf(<<c>>, plain)

(***************************************************************************)
(* The form page: the submit listener and the trade-appraisal function     *)
(***************************************************************************)

\* what the form holds at the submit: every control gives a string, empty
\* when it was left blank
Blank == Str(<<>>)
SubmitForms ==
  {[[k \in Fields |-> Blank] EXCEPT
      !.name = n, !.email = e, !.phone = p, !.vin = v, !.year = y, !.make = m] :
     n \in {Blank, Str(<<"J", "a", "n", "e", " ", "D", "o", "e">>)}, e \in {Blank, Str(<<"j", "a", "n", "e", "@", "e", "x", "a", "m", "p", "l", "e", ".", "c", "o", "m">>)},
     p \in {Blank, Str(<<"5", "5", "5", "1", "2", "3", "4", "5", "6", "7">>)}, v \in {Blank, Str(<<"1", "H", "G", "C", "M", "8", "2", "6", "3", "3", "A", "0", "0", "4", "3", "5", "2">>)},
     y \in {Blank, Str(<<"2", "0", "2", "0">>)}, m \in {Blank, Str(<<"h", "o", "n", "d", "a">>)}}

\* new FormData(form) as the body of fetch: the browser sends it as
\* multipart/form-data, text that begins with the boundary line "--..." and
\* holds one part per control; JSON.parse does not accept it
FormDataBody(form) == [kind |-> "invalid", t |-> "undefined", f |-> NoFields]

\* the page with the form filled in and the notice empty
SubmitInit ==
  /\ ServerInit
  /\ client \in {[page |-> "submit", form |-> f, state |-> "editing", notice |-> "",
                  submitted |-> [k \in Fields |-> Blank], request |-> NoEvent] : f \in SubmitForms}

\* the submit listener up to its await: notice 'Sending...', then
\* fetch('/.netlify/functions/trade-appraisal', { method: 'POST', body: fd })
WireSubmit ==
  /\ client.page = "submit"
  /\ client.state = "editing"
  /\ client' = [client EXCEPT
                  !.state = "sending", !.notice = "sending", !.submitted = client.form,
                  !.request = [httpMethod |-> "POST", body |-> FormDataBody(client.form),
                               files |-> <<>>]]
  /\ UNCHANGED serverVars

\* the request reaches the function, whichever revision is deployed
PostArrives(hd) ==
  /\ client.page = "submit"
  /\ client.state = "sending"
  /\ Receive(hd, client.request)

\* the listener after its await: if (!res.ok) throw ...; the success notice
\* and form.reset(), or in the catch the error notice. An invocation that
\* threw is answered by the platform with a 500
ShowResult ==
  /\ client.page = "submit"
  /\ client.state = "sending"
  /\ pc = "done"
  /\ client' =
       IF outcome = "returned" /\ response.statusCode \in 200..299
       THEN [client EXCEPT !.state = "shown", !.notice = "success",
                           !.form = [k \in Fields |-> Blank]]
       ELSE [client EXCEPT !.state = "shown", !.notice = "error"]
  /\ UNCHANGED serverVars

SubmitNext ==
  \/ WireSubmit
  \/ \E hd \in TA : PostArrives(hd)
  \/ MethodGate
  \/ ParseBody
  \/ ShowResult

SubmitSpec == SubmitInit /\ [][SubmitNext]_vars

RequiredFilled(form) ==
  \A k \in {"name", "email", "phone", "vin"} : form[k] # Blank

\* C29: when the form is submitted with all required fields filled and the
\* e-mail transport has not failed, the function answers 200 and the page
\* shows the success notice with the form reset; the error notice is shown
\* only after a 400 for missing fields or a 502 for a failed delivery
C29_FormatsAgree ==
  (client.page = "submit" /\ client.state = "shown") =>
    /\ (RequiredFilled(client.submitted) /\ mail # "rejected") =>
         /\ response.statusCode = 200
         /\ client.notice = "success"
    /\ client.notice = "error" =>
         \/ response = MissingResponse(h)
         \/ response = SendFailedResponse(h)
====
